---- MODULE Spec2Model ----
(***************************************************************************)
(* A model of the browser-use JavaScript port: the action registry and     *)
(* dispatcher (Controller / Registry), the context window manager          *)
(* (MessageManager) and the agent orchestrator (Agent.step).               *)
(*                                                                         *)
(* The specifications sharing the module:                                 *)
(*   SpecCtl            Controller.multiAct / act / Registry.executeAction *)
(*   SpecMM             MessageManager and its token accounting            *)
(*   SpecAgent          Agent.step and Agent._handleStepError              *)
(*   SpecAgentOverlap   Agent.step called again while a call is pending    *)
(*   SpecSession        BrowserContext / CDPService, calls awaited in turn *)
(*   SpecSessionOverlap BrowserContext calls made while one is pending     *)
(*   SpecNet            BrowserContext.waitForNetworkIdle                  *)
(*   SpecNetFair        the same, with time passing and timers firing      *)
(*   SpecDom            DomService snapshots, DOMElementNode serialization *)
(*                      and HistoryTreeProcessor                           *)
(*   SpecMsg            BackgroundMessageHandler                           *)
(*   SpecTel            the telemetry identifier in chrome.storage         *)
(* Each one leaves the variables of the other components untouched.        *)
(***************************************************************************)
EXTENDS Integers, Sequences, FiniteSets, TLC

VARIABLES
    \* ---- Controller / Registry --------------------------------------
    registry,       \* Registry.registry.actions: name -> registered action
    ctlPc,          \* position of the multiAct call
    actions,        \* multiAct's `actions` argument
    browser,        \* multiAct's `browser` argument (TRUE: supplied, FALSE: null)
    idx,            \* next element the for-of loop will take (1-based)
    results,        \* multiAct's `results`
    inflight,       \* actions started by act() and not yet settled
    implStage,      \* awaits the in-flight implementation has passed
    events,         \* observation: start / end of every action, in order
    execLog,        \* observation: outcome of every executeAction entry
    thrown,         \* the error multiAct rejected with (NoError: none)
    \* ---- MessageManager ---------------------------------------------
    history,        \* MessageManager.history {messages, totalTokens}
    maxInputTokens, \* MessageManager.maxInputTokens (the budget)
    mmLast,         \* observation: the last MessageManager call
    \* ---- Agent ------------------------------------------------------
    stepPc,         \* position of the step() call
    consecutiveFailures,
    maxFailures,
    lastResult,     \* Agent.lastResult (<<>> models null)
    runHistory,     \* Agent.history.history
    stState,        \* step local `state` (NoState models null)
    stResult,       \* step local `result`
    stModelOutput,  \* step local `modelOutput` (NoPlan models null)
    stepLog,        \* observation: what the current / last step did
    nCalls,         \* number of step() calls made so far
    agentMaxInputTokens, \* Agent.maxInputTokens (the configured budget)
    otherCall,      \* locals of a second step() call suspended at an await
    retryTimers,    \* pending timers armed by the RateLimitError branch
    \* ---- BrowserContext / CDPService --------------------------------
    sess,           \* BrowserContext fields: cdp (with the CDPService's
                    \* debuggee and tabId), currentTabId, tabs, config
    chrome,         \* the browser: open tabs, tabs the debugger is attached to
    sessCalls,      \* the pending BrowserContext calls and their positions
    nSessCalls,     \* number of BrowserContext calls made so far
    net,            \* the waitForNetworkIdle call: its closure and timers
    \* ---- Extension side: DOM, messages, telemetry --------------------
    dom,            \* the page's raw tree, the DOM state built from it and
                    \* the last DOMElementNode / HistoryTreeProcessor call
    bg,             \* BackgroundMessageHandler: messages and their responses
    telem           \* chrome.storage identifiers, the pending telemetry
                    \* calls and the events they emitted

ctlVars   == <<registry, ctlPc, actions, browser, idx, results, inflight,
               implStage, events, execLog, thrown>>
mmVars    == <<history, maxInputTokens, mmLast>>
agentVars == <<stepPc, consecutiveFailures, maxFailures, lastResult,
               runHistory, stState, stResult, stModelOutput, stepLog, nCalls,
               agentMaxInputTokens, otherCall, retryTimers>>
sessVars  == <<sess, chrome, sessCalls, nSessCalls>>
netVars   == <<net>>
browserVars == <<sessVars, netVars>>
extVars   == <<dom, bg, telem>>
vars      == <<ctlVars, mmVars, agentVars, browserVars, extVars>>

(***************************************************************************)
(* JavaScript values                                                       *)
(***************************************************************************)
\* The string standing for JavaScript's `undefined` in a string-typed field.
Undefined == "<undefined>"

\* JavaScript truthiness of a string-or-undefined field.
TruthyStr(s) == s # Undefined /\ s # ""

\* Raw parameter values a caller can hand to executeAction.
IntV(n) == [kind |-> "int", num |-> n, str |-> "", prop |-> ""]
StrV(s) == [kind |-> "str", num |-> 0, str |-> s, prop |-> ""]
ObjV    == [kind |-> "obj", num |-> 0, str |-> "", prop |-> ""]
UndefV  == [kind |-> "undefined", num |-> 0, str |-> "", prop |-> ""]
NullV   == [kind |-> "null", num |-> 0, str |-> "", prop |-> ""]

\* The parameters as the planner writes them (system prompt, e.g.
\* {"click_element": {"index": 3}}): an object with property `prop`
\* holding v.  Controller.act hands this object to executeAction.
PlannerObject(prop, v) ==
    [kind |-> "obj", num |-> v.num, str |-> v.str, prop |-> prop]

\* params.index / params.text of a parameter value: the property of an
\* object that has it, undefined otherwise.
PropertyOf(raw, prop) ==
    IF raw.kind = "obj" /\ raw.prop = prop
    THEN (IF prop = "index" THEN IntV(raw.num) ELSE StrV(raw.str))
    ELSE UndefV

IsInteger(v) == v.kind = "int"
IsString(v)  == v.kind = "str"

\* Strings `new URL(s)` accepts, among the strings of the model.
ValidUrls == {"http://a"}

(***************************************************************************)
(* Parameter models (controller/views.js)                                  *)
(***************************************************************************)
\* `new action.paramModel(params)`: every constructor is positional, and
\* executeAction passes the raw parameters as the single first argument.
\* The instance is a record of the model's fields; a constructor parameter
\* that receives no argument, or `undefined` with a default, takes its default.
ConstructParams(model, raw) ==
    CASE model = "SearchGoogleAction"       -> [a |-> raw, b |-> UndefV]
      [] model = "GoToUrlAction"            -> [a |-> raw, b |-> UndefV]
      [] model = "ClickElementAction"       -> [a |-> raw, b |-> UndefV]
      [] model = "InputTextAction"          -> [a |-> raw, b |-> UndefV]
      [] model = "SwitchTabAction"          -> [a |-> raw, b |-> UndefV]
      [] model = "OpenTabAction"            -> [a |-> raw, b |-> UndefV]
      [] model = "ExtractPageContentAction" ->
            [a |-> IF raw.kind = "undefined" THEN StrV("text") ELSE raw, b |-> UndefV]
      [] model = "DoneAction"               -> [a |-> raw, b |-> UndefV]
      [] model = "ScrollAction"             ->
            [a |-> IF raw.kind = "undefined" THEN NullV ELSE raw, b |-> UndefV]
      [] model = "SendKeysAction"           -> [a |-> raw, b |-> UndefV]
      [] OTHER                              -> [a |-> raw, b |-> UndefV]

\* validate() of each parameter model, on the constructed instance
\* (field a: the first constructor argument, field b: the second).
ValidateParams(model, inst) ==
    CASE model = "SearchGoogleAction"       -> IsString(inst.a) /\ inst.a.str # ""
      [] model = "GoToUrlAction"            -> IsString(inst.a) /\ inst.a.str \in ValidUrls
      [] model = "ClickElementAction"       -> IsInteger(inst.a) /\ inst.a.num >= 0
      [] model = "InputTextAction"          ->
            IsInteger(inst.a) /\ inst.a.num >= 0 /\ IsString(inst.b)
      [] model = "SwitchTabAction"          -> IsInteger(inst.a)
      [] model = "OpenTabAction"            -> IsString(inst.a) /\ inst.a.str \in ValidUrls
      [] model = "ExtractPageContentAction" ->
            IsString(inst.a) /\ inst.a.str \in {"text", "markdown"}
      [] model = "DoneAction"               -> IsString(inst.a)
      [] model = "ScrollAction"             ->
            inst.a.kind = "null" \/ (IsInteger(inst.a) /\ inst.a.num > 0)
      [] model = "SendKeysAction"           -> IsString(inst.a) /\ inst.a.str # ""
      [] OTHER                              -> TRUE

(***************************************************************************)
(* Registry (registry/service.js, registry/views.js)                       *)
(***************************************************************************)
\* One call `registry.action(description, paramModel, requiresBrowser)(func)`.
\* fname is func.name: every default action is an arrow function written
\* in place as the argument, whose name is the empty string.
Registration(fname, paramModel, requiresBrowser, impl) ==
    [fname |-> fname, paramModel |-> paramModel,
     requiresBrowser |-> requiresBrowser, impl |-> impl]

\* Controller._registerDefaultActions, in source order.
DefaultRegistrations == <<
    Registration("", "SearchGoogleAction", TRUE, "search_google"),
    Registration("", "GoToUrlAction", TRUE, "go_to_url"),
    Registration("", "ClickElementAction", TRUE, "click_element"),
    Registration("", "InputTextAction", TRUE, "input_text"),
    Registration("", "SwitchTabAction", TRUE, "switch_tab"),
    Registration("", "OpenTabAction", TRUE, "open_tab"),
    Registration("", "ExtractPageContentAction", TRUE, "extract_page_content"),
    Registration("", "DoneAction", FALSE, "done"),
    Registration("", "ScrollAction", TRUE, "scroll_down"),
    Registration("", "ScrollAction", TRUE, "scroll_up"),
    Registration("", "SendKeysAction", TRUE, "send_keys") >>

\* ActionRegistry constructor: this.actions = {}.
EmptyRegistry == [n \in {} |-> Registration("", "", FALSE, "")]

\* Registry.action: this.registry.actions[func.name] = action.
RegisterAction(reg, r) ==
    [n \in (DOMAIN reg) \cup {r.fname} |-> IF n = r.fname THEN r ELSE reg[n]]

RECURSIVE RegisterAll(_, _)
RegisterAll(reg, regs) ==
    IF regs = <<>> THEN reg
    ELSE RegisterAll(RegisterAction(reg, Head(regs)), Tail(regs))

\* Registrations an embedding program adds through Registry.action with
\* named functions (function done(params) {...}), after the defaults.
CustomRegistrations == {
    <<>>,
    << Registration("done", "DoneAction", FALSE, "done") >>,
    << Registration("done", "DoneAction", FALSE, "done"),
       Registration("click_element", "ClickElementAction", TRUE, "click_element") >> }

(***************************************************************************)
(* Errors and results                                                      *)
(***************************************************************************)
NoError == [wrapped |-> FALSE, text |-> "<none>"]

\* Registry.executeAction's three own failures.  `wrapped` is the
\* "Error executing action <name>: " prefix the catch block adds.
NotFoundError        == [wrapped |-> FALSE, text |-> "Action not found"]
InvalidParamsError   == [wrapped |-> TRUE,  text |-> "Invalid parameters for action"]
RequiresBrowserError == [wrapped |-> TRUE,  text |-> "requires browser but none provided"]

\* Messages of errors raised inside an implementation (browser failures).
ImplErrorMessages == {"", "boom"}

OkResult(content, inMemory) ==
    [error |-> Undefined, extractedContent |-> content,
     includeInMemory |-> inMemory, isDone |-> FALSE]
ErrorResult(msg) ==
    [error |-> msg, extractedContent |-> Undefined,
     includeInMemory |-> FALSE, isDone |-> FALSE]
DoneResult(text) ==
    [error |-> Undefined, extractedContent |-> text,
     includeInMemory |-> FALSE, isDone |-> TRUE]

\* Controller._executeWithResult: the result, or {error: error.message}.
ExecuteWithResult(okResults) ==
    okResults \cup {ErrorResult(m) : m \in ImplErrorMessages}

\* What a registered implementation can resolve to, given the validated
\* parameters it was called with.
ImplOutcomes(impl, inst) ==
    CASE impl = "done" -> {DoneResult(inst.a.str)}
      [] impl = "extract_page_content" -> ExecuteWithResult({OkResult("content", FALSE)})
      [] OTHER -> ExecuteWithResult({OkResult("msg", TRUE)})

\* executeAction without its validation step.
ExecuteActionCheckNoValidate(reg, name, raw, hasBrowser) ==
    IF name \notin DOMAIN reg THEN NotFoundError
    ELSE IF reg[name].requiresBrowser /\ ~hasBrowser THEN RequiresBrowserError
    ELSE NoError

\* The part of Registry.executeAction that runs before the implementation:
\* the error it throws, or NoError when the implementation is invoked.
ExecuteActionCheck(reg, name, raw, hasBrowser) ==
    IF name \notin DOMAIN reg THEN NotFoundError
    ELSE IF ~ValidateParams(reg[name].paramModel,
                            ConstructParams(reg[name].paramModel, raw))
         THEN InvalidParamsError
    ELSE IF reg[name].requiresBrowser /\ ~hasBrowser THEN RequiresBrowserError
    ELSE NoError

\* A loop that breaks on an error only.
ShouldBreakOnErrorOnly(result) == TruthyStr(result.error)

\* multiAct's `if (result.error || result.isDone) break`.
ShouldBreak(result) == TruthyStr(result.error) \/ result.isDone

\* A loop that does not await the action it started.
AwaitSettledNever(pending) == TRUE

\* `await this.act(action, browser)`: the loop resumes only when the
\* action it started has settled.
AwaitSettled(pending) == pending = {}

\* Number of awaits on an implementation's success path (controller/service.js).
ImplAwaits(impl) ==
    CASE impl = "done" -> 0
      [] impl = "open_tab" -> 1
      [] impl \in {"search_google", "go_to_url", "switch_tab"} -> 3
      [] impl = "click_element" -> 5
      [] OTHER -> 2

(***************************************************************************)
(* Bounds and inputs of the dispatcher                                     *)
(***************************************************************************)
MaxActions == 3

ActionNames == {"", "done", "click_element"}
RawParams   == {IntV(1), StrV("k"), PlannerObject("index", IntV(3))}
ActionInputs == [name : ActionNames, params : RawParams]
ActionLists == UNION {[1..n -> ActionInputs] : n \in 0..MaxActions}

(***************************************************************************)
(* Parked states: a component the specification at hand does not run       *)
(***************************************************************************)
NoCall == [op |-> "none", over |-> FALSE, diff |-> 0, lastTokens |-> 0,
           lastImages |-> 0, err |-> "none", lenBefore |-> 0, result |-> <<>>]
NoState == [url |-> Undefined, screenshot |-> FALSE, textLen |-> 0,
            selectorMap |-> [k \in {} |-> ""]]
NoPlan == [present |-> FALSE, actions |-> <<>>, len |-> 0]
NoStepLog == [before |-> 0, failed |-> FALSE, errText |-> "<none>",
              handlerThrew |-> FALSE, outcome |-> "none",
              planned |-> <<>>, histBefore |-> 0, telemetry |-> "none",
              budgetBefore |-> 0, retrimmed |-> FALSE]
\* The locals of a step() call that is not running.
CallLocals(pc) == [pc |-> pc, state |-> NoState, result |-> <<>>,
                   modelOutput |-> NoPlan, log |-> NoStepLog]

CtlParked ==
    /\ registry = EmptyRegistry
    /\ ctlPc = "none"
    /\ actions = <<>>
    /\ browser = FALSE
    /\ idx = 1
    /\ results = <<>>
    /\ inflight = {}
    /\ implStage = 0
    /\ events = <<>>
    /\ execLog = <<>>
    /\ thrown = NoError

MMParked ==
    /\ history = [messages |-> <<>>, totalTokens |-> 0]
    /\ maxInputTokens = 0
    /\ mmLast = NoCall

AgentParked ==
    /\ stepPc = "none"
    /\ retryTimers = 0
    /\ consecutiveFailures = 0
    /\ maxFailures = 0
    /\ lastResult = <<>>
    /\ runHistory = <<>>
    /\ stState = NoState
    /\ stResult = <<>>
    /\ stModelOutput = NoPlan
    /\ stepLog = NoStepLog
    /\ nCalls = 0
    /\ agentMaxInputTokens = 0
    /\ otherCall = CallLocals("none")

\* null in a tab-id field (Chrome's tab ids are positive).
NullTab == 0
\* this.cdp = null.
NoCdp == [exists |-> FALSE, debuggee |-> NullTab, tabId |-> NullTab]
\* No waitForNetworkIdle call.
NoWait == [pc |-> "none", pendingRequests |-> {}, timeoutId |-> -1,
           ceiling |-> -1, elapsed |-> 0, observed |-> FALSE, quiet |-> 0,
           sinceStart |-> -1, via |-> "none"]

SessParked ==
    /\ sess = [cdp |-> NoCdp, currentTabId |-> NullTab, tabs |-> {},
               cookiesFile |-> FALSE]
    /\ chrome = [tabs |-> {}, attached |-> {}]
    /\ sessCalls = <<>>
    /\ nSessCalls = 0

NetParked == net = NoWait

BrowserParked == SessParked /\ NetParked

\* highlightIndex = null (the indices the page script hands out start at 0).
NullIndex == -1
\* No DOMHistoryElement.
NoHist == [tagName |-> "", highlightIndex |-> NullIndex,
           entireParentBranchPath |-> <<>>, attributes |-> <<>>]
\* No call made on the DOM state.
NoDomOp == [op |-> "none", includeAttributes |-> <<>>, err |-> "none",
            lines |-> <<>>, node |-> 0, other |-> 0, source |-> 0,
            hist |-> NoHist, found |-> 0, equal |-> FALSE, hashes |-> <<>>]
\* No page and no DOM state.
NoDom == [pc |-> "none", raw |-> <<>>, tree |-> <<>>, selectorMap |-> <<>>,
          last |-> NoDomOp]
DomParked == dom = NoDom

\* No BackgroundMessageHandler.
NoHandler == [pc |-> "none", msgs |-> <<>>]
MsgParked == bg = NoHandler

\* No telemetry call and nothing in chrome.storage.
NoTel == [pc |-> "none", telemetryUserId |-> 0, anonymousId |-> 0,
          telemetryEnabled |-> FALSE, calls |-> <<>>,
          writes |-> <<>>, events |-> <<>>, nextId |-> 1]
TelParked == telem = NoTel

ExtParked == DomParked /\ MsgParked /\ TelParked

(***************************************************************************)
(* Controller.multiAct / act / Registry.executeAction                      *)
(***************************************************************************)
\* State after `new Controller()` (plus the embedding program's own
\* registrations), before any multiAct call.
InitCtl ==
    /\ registry \in {RegisterAll(EmptyRegistry, DefaultRegistrations \o c) :
                        c \in CustomRegistrations}
    /\ ctlPc = "idle"
    /\ actions = <<>>
    /\ browser = FALSE
    /\ idx = 1
    /\ results = <<>>
    /\ inflight = {}
    /\ implStage = 0
    /\ events = <<>>
    /\ execLog = <<>>
    /\ thrown = NoError
    /\ MMParked
    /\ AgentParked
    /\ BrowserParked
    /\ ExtParked

\* multiAct(actions, browser): const results = [].
MultiActCall ==
    /\ ctlPc = "idle"
    /\ \E as \in ActionLists, b \in BOOLEAN :
          /\ actions' = as
          /\ browser' = b
    /\ ctlPc' = "loop"
    /\ idx' = 1
    /\ results' = <<>>
    /\ UNCHANGED <<registry, inflight, implStage, events, execLog, thrown>>
    /\ UNCHANGED <<mmVars, agentVars, browserVars, extVars>>

\* The loop takes the next action and calls act -> executeAction, which
\* runs up to the call of the implementation; a throw there rejects the
\* promise multiAct awaits, and multiAct rejects with it.
ActStart ==
    /\ ctlPc = "loop"
    /\ idx <= Len(actions)
    /\ AwaitSettled(inflight)
    /\ LET a   == actions[idx]
           err == ExecuteActionCheck(registry, a.name, a.params, browser)
       IN  /\ execLog' = Append(execLog, [name |-> a.name, params |-> a.params,
                                          hasBrowser |-> browser, err |-> err])
           /\ IF err # NoError
              THEN /\ ctlPc' = "thrown"
                   /\ thrown' = err
                   /\ events' = events \o << <<"start", idx>>, <<"end", idx>> >>
                   /\ UNCHANGED inflight
              ELSE /\ inflight' = inflight \cup {idx}
                   /\ events' = Append(events, <<"start", idx>>)
                   /\ UNCHANGED <<ctlPc, thrown>>
    /\ idx' = idx + 1
    /\ implStage' = 0
    /\ UNCHANGED <<registry, actions, browser, results>>
    /\ UNCHANGED <<mmVars, agentVars, browserVars, extVars>>

\* The in-flight implementation passes one of its awaits.
ActProgress ==
    /\ ctlPc = "loop"
    /\ \E i \in inflight :
          implStage < ImplAwaits(registry[actions[i].name].impl)
    /\ implStage' = implStage + 1
    /\ events' = Append(events, <<"await", CHOOSE i \in inflight : TRUE>>)
    /\ UNCHANGED <<registry, ctlPc, actions, browser, idx, results, inflight,
                   execLog, thrown>>
    /\ UNCHANGED <<mmVars, agentVars, browserVars, extVars>>

\* The in-flight implementation settles: it returns its result after its
\* last await, or an await before that rejects and _executeWithResult (or
\* click's own catch) turns the error into a result.  multiAct pushes the
\* result and breaks or goes on.
ActSettle ==
    /\ ctlPc = "loop"
    /\ \E i \in inflight :
          LET act  == registry[actions[i].name]
              inst == ConstructParams(act.paramModel, actions[i].params)
          IN  \E r \in ImplOutcomes(act.impl, inst) :
                 /\ IF implStage = ImplAwaits(act.impl)
                    THEN r.error = Undefined
                    ELSE r.error # Undefined
                 /\ results' = Append(results, r)
                 /\ events' = Append(events, <<"end", i>>)
                 /\ inflight' = inflight \ {i}
                 /\ ctlPc' = IF ShouldBreak(r) THEN "returned" ELSE "loop"
    /\ UNCHANGED <<registry, actions, browser, idx, implStage, execLog, thrown>>
    /\ UNCHANGED <<mmVars, agentVars, browserVars, extVars>>

\* The iterator is exhausted: return results.
LoopExit ==
    /\ ctlPc = "loop"
    /\ idx > Len(actions)
    /\ AwaitSettled(inflight)
    /\ ctlPc' = "returned"
    /\ UNCHANGED <<registry, actions, browser, idx, results, inflight,
                   implStage, events, execLog, thrown>>
    /\ UNCHANGED <<mmVars, agentVars, browserVars, extVars>>

NextCtl == MultiActCall \/ ActStart \/ ActProgress \/ ActSettle \/ LoopExit

SpecCtl == InitCtl /\ [][NextCtl]_vars

(***************************************************************************)
(* Claims about the dispatcher (checked under SpecCtl)                     *)
(***************************************************************************)
\* A result "carries" error or isDone: the field is set to a value the
\* caller can see (a non-empty error text, isDone true).
Carries(r) == (r.error # Undefined /\ r.error # "") \/ r.isDone = TRUE

StartedActions == {events[j][2] : j \in {x \in 1..Len(events) : events[x][1] = "start"}}

\* C1: multiAct over N actions returns exactly k results when action k is
\* the first whose result carries error or isDone (N results when none
\* does), and no action after the stopping one is ever invoked.
C1_StopsAtFirstStoppingResult ==
    /\ \A i \in StartedActions :
          \A m \in 1..(i - 1) : m <= Len(results) /\ ~Carries(results[m])
    /\ ctlPc = "returned" =>
          LET n == Len(results) IN
          /\ n <= Len(actions)
          /\ StartedActions = 1..n
          /\ \A m \in 1..(n - 1) : ~Carries(results[m])
          /\ \/ n >= 1 /\ Carries(results[n])
             \/ n = Len(actions)

\* C1 witness: a three-action list stopped by its second action's isDone.
C1_Witness ==
    /\ ctlPc = "returned"
    /\ Len(actions) = 3
    /\ Len(results) = 2
    /\ results[2].isDone
    /\ ~Carries(results[1])

\* C2: action-level errors are data: multiAct never rejects, and when an
\* action could not be executed (unknown name, invalid parameters, missing
\* session) it returns a list whose last result carries error.
C2_ErrorsNeverThrown ==
    /\ ctlPc # "thrown"
    /\ (ctlPc = "returned" /\ \E j \in 1..Len(execLog) : execLog[j].err # NoError)
          => (results # <<>> /\ Carries(results[Len(results)]))

\* C3: the events of action i (start, internal awaits, end) all precede
\* the start of action i+1, and actions start in the caller's order.
C3_StrictlySequential ==
    \A j \in 1..Len(events) :
       events[j][1] = "start" =>
          /\ events[j][2] = Cardinality({x \in 1..j : events[x][1] = "start"})
          /\ \A m \in 1..(events[j][2] - 1) :
                \E k \in 1..(j - 1) : events[k] = <<"end", m>>
          /\ \A k \in (j + 1)..Len(events) : events[k][2] >= events[j][2]

\* C3 witness: the second action started after the first one went through
\* an internal await and settled.
C3_Witness ==
    \E j \in 1..Len(events) :
       /\ events[j] = <<"start", 2>>
       /\ \E a \in 1..(j - 1) : events[a] = <<"await", 1>>
       /\ \E k \in (j + 1)..Len(events) : events[k] = <<"await", 2>>

ParamsValid(e) ==
    ValidateParams(registry[e.name].paramModel,
                   ConstructParams(registry[e.name].paramModel, e.params))

ESTIMATED_TOKENS_PER_CHARACTER == 3
IMG_TOKENS == 800
MaxErrorLength == 400

\* Lengths (in characters) of the strings of the model.
StrLen(s) ==
    CASE s = "" -> 0
      [] s = Undefined -> 0
      [] s = "k" -> 1
      [] s = "boom" -> 4
      [] s = "msg" -> 30
      [] s = "content" -> 3000
      [] s = "long error" -> 1200
      [] OTHER -> 60

Min(a, b) == IF a < b THEN a ELSE b

\* A message: its role, whether content is an array of parts, the number
\* of characters of its text, the number of image parts, and what it holds.
Message(role, parts, len, images, kind) ==
    [role |-> role, parts |-> parts, len |-> len, images |-> images, kind |-> kind,
     errors |-> <<>>]

\* An error text as it stands in a message: String(error).slice(-max).
SlicedError(text) == [text |-> text, len |-> Min(StrLen(text), MaxErrorLength)]

\* _countTextTokens, character-based estimation.
CountTextTokens(len) == len \div ESTIMATED_TOKENS_PER_CHARACTER

\* _countTokens.
CountTokens(msg) ==
    IF msg.parts
    THEN msg.images * IMG_TOKENS + CountTextTokens(msg.len)
    ELSE CountTextTokens(msg.len)

\* _addMessageWithTokens.
AddMessageWithTokens(h, msg) ==
    [messages |-> Append(h.messages,
                         [message |-> msg, inputTokens |-> CountTokens(msg)]),
     totalTokens |-> h.totalTokens + CountTokens(msg)]

\* The outcome of a MessageManager method: the history it leaves and the
\* error it threw ("none": it returned).
Outcome(h, err) == [h |-> h, err |-> err]

\* A removal that takes a negative index as counted from the end.
RemoveMessageFromEnd(h, index) ==
    LET i == IF index < 0 THEN Len(h.messages) + index ELSE index IN
    IF i \notin 0..(Len(h.messages) - 1)
    THEN Outcome(h, "TypeError")
    ELSE Outcome([messages |-> [j \in 1..(Len(h.messages) - 1) |->
                                   IF j <= i THEN h.messages[j]
                                   ELSE h.messages[j + 1]],
                  totalTokens |-> h.totalTokens - h.messages[i + 1].inputTokens],
                 "none")
\* _removeMessage(index): `this.history.messages[index]` is an own-property
\* lookup, so an index outside 0..length-1 (the default -1 included) reads
\* undefined and `msg.metadata` throws a TypeError before anything changes.
RemoveMessage(h, index) ==
    IF index \notin 0..(Len(h.messages) - 1)
    THEN Outcome(h, "TypeError")
    ELSE Outcome([messages |-> [j \in 1..(Len(h.messages) - 1) |->
                                   IF j <= index THEN h.messages[j]
                                   ELSE h.messages[j + 1]],
                  totalTokens |-> h.totalTokens - h.messages[index + 1].inputTokens],
                 "none")

\* _removeLastStateMessage.
RemoveLastStateMessage(h) ==
    IF Len(h.messages) > 2 /\ h.messages[Len(h.messages)].message.role = "user"
    THEN RemoveMessage(h, -1)
    ELSE Outcome(h, "none")

\* An image removal that lowers the record's count but not the total.
RemoveImagesKeepTotal(h) ==
    LET n    == Len(h.messages)
        last == h.messages[n]
    IN  IF ~last.message.parts THEN h
        ELSE [messages |-> [h.messages EXCEPT ![n] =
                  [message |-> [Message(last.message.role, FALSE, last.message.len,
                                        0, last.message.kind)
                                  EXCEPT !.errors = last.message.errors],
                   inputTokens |-> last.inputTokens - last.message.images * IMG_TOKENS]],
              totalTokens |-> h.totalTokens]

\* A trim that leaves image parts where they are.
RemoveImagesNever(h) == h
\* cutMessages, lines 155-172: when the newest content is an array, every
\* image part is dropped (IMG_TOKENS off the record and off the total for
\* each) and the content becomes the concatenated text.
RemoveImages(h) ==
    LET n    == Len(h.messages)
        last == h.messages[n]
    IN  IF ~last.message.parts THEN h
        ELSE [messages |-> [h.messages EXCEPT ![n] =
                  [message |-> [Message(last.message.role, FALSE, last.message.len,
                                        0, last.message.kind)
                                  EXCEPT !.errors = last.message.errors],
                   inputTokens |-> last.inputTokens - last.message.images * IMG_TOKENS]],
              totalTokens |-> h.totalTokens - last.message.images * IMG_TOKENS]

\* `diff / lastMsg.metadata.inputTokens > 0.99` (a zero divisor gives Infinity).
ProportionOver99(diff, tokens) ==
    IF tokens = 0 THEN TRUE ELSE diff * 100 > 99 * tokens

\* Math.floor(content.length * proportionToRemove).
CharactersToRemove(len, diff, tokens) == (len * diff) \div tokens

\* content.slice(0, -charactersToRemove).length; slice(0, -0) is slice(0, 0).
SliceLen(len, remove) ==
    IF remove = 0 THEN 0 ELSE IF remove >= len THEN 0 ELSE len - remove

\* A trim that makes room by removing the oldest record after the two
\* initial ones.
CutMessagesOldestFirst(h, budget) ==
    IF h.totalTokens - budget <= 0 \/ Len(h.messages) <= 2
    THEN Outcome(h, "none")
    ELSE RemoveMessage(h, 2)
\* cutMessages.
CutMessages(h, budget) ==
    LET diff == h.totalTokens - budget IN
    IF diff <= 0 THEN Outcome(h, "none")
    ELSE
      LET h1     == RemoveImages(h)
          last   == h1.messages[Len(h1.messages)]
          tokens == last.inputTokens
      IN  IF h1.totalTokens - budget <= 0 THEN Outcome(h1, "none")
          ELSE IF ProportionOver99(diff, tokens) THEN Outcome(h1, "MaxTokenLimit")
          ELSE
            LET newLen == SliceLen(last.message.len,
                                   CharactersToRemove(last.message.len, diff, tokens))
                r      == RemoveMessage(h1, -1)
            IN  IF r.err # "none" THEN r
                ELSE Outcome(AddMessageWithTokens(
                                r.h, Message("user", FALSE, newLen, 0, "trimmed")),
                             "none")

\* getMessages: cutMessages, then the list of messages.
GetMessages(h, budget) == CutMessages(h, budget)

\* addStateMessage, lines 79-99: the messages added for the results kept
\* in memory.
RECURSIVE AddMemoryMessages(_, _)
AddMemoryMessages(h, result) ==
    IF result = <<>> THEN h
    ELSE
      LET r  == Head(result)
          h1 == IF r.includeInMemory /\ TruthyStr(r.extractedContent)
                THEN AddMessageWithTokens(h,
                        Message("user", FALSE, StrLen(r.extractedContent), 0, "memory"))
                ELSE h
          h2 == IF r.includeInMemory /\ TruthyStr(r.error)
                THEN AddMessageWithTokens(h1,
                        [Message("user", FALSE, Min(StrLen(r.error), MaxErrorLength),
                                 0, "error")
                           EXCEPT !.errors = <<SlicedError(r.error)>>])
                ELSE h1
      IN  AddMemoryMessages(h2, Tail(result))

\* `result = null` inside the loop: the results reach the state message
\* only when none of them is kept in memory.
ResultForPrompt(result) ==
    IF \E j \in 1..Len(result) : result[j].includeInMemory THEN <<>> ELSE result

ResultPrefixLen == 23
ErrorPrefixLen == 25

\* AgentMessagePrompt.getUserMessage: the characters the results add to
\* the state description.
RECURSIVE ResultLinesLen(_)
ResultLinesLen(result) ==
    IF result = <<>> THEN 0
    ELSE LET r == Head(result) IN
         (IF TruthyStr(r.extractedContent)
          THEN ResultPrefixLen + StrLen(r.extractedContent) ELSE 0)
         + (IF TruthyStr(r.error)
            THEN ErrorPrefixLen + Min(StrLen(r.error), MaxErrorLength) ELSE 0)
         + ResultLinesLen(Tail(result))

\* AgentMessagePrompt.getUserMessage, lines 473-483: the error texts the
\* state description ends up holding.
RECURSIVE ResultErrors(_)
ResultErrors(result) ==
    IF result = <<>> THEN <<>>
    ELSE (IF TruthyStr(Head(result).error)
          THEN <<SlicedError(Head(result).error)>> ELSE <<>>)
         \o ResultErrors(Tail(result))

\* AgentMessagePrompt.getUserMessage.
StateMessage(state, result) ==
    [Message("user", state.screenshot, state.textLen + ResultLinesLen(result),
             IF state.screenshot THEN 1 ELSE 0, "state")
       EXCEPT !.errors = ResultErrors(result)]

\* addStateMessage.
AddStateMessage(h, state, result) ==
    AddMessageWithTokens(AddMemoryMessages(h, result),
                         StateMessage(state, ResultForPrompt(result)))

\* addModelOutput: JSON.stringify(modelOutput) as an assistant message.
AddModelOutput(h, outputLen) ==
    AddMessageWithTokens(h, Message("assistant", FALSE, outputLen, 0, "output"))

\* The constructor: the system message, then the task message.
ConstructHistory(systemLen, taskLen) ==
    AddMessageWithTokens(
        AddMessageWithTokens([messages |-> <<>>, totalTokens |-> 0],
                             Message("system", FALSE, systemLen, 0, "system")),
        Message("user", FALSE, taskLen, 0, "task"))

(***************************************************************************)
(* Bounds and inputs of the context window manager                         *)
(***************************************************************************)
MaxMessages == 5

SystemLens == {300}
TaskLens   == {30}
Budgets    == {105, 900, 1010, 2500}
OutputLens == {90}

\* Browser states handed to addStateMessage: the length of the rendered
\* description and whether a screenshot comes with it.
BrowserStates ==
    [url : {"u"}, screenshot : BOOLEAN, textLen : {3000, 300000}]

\* The one-item result _handleStepError returns.
StepErrorResult(msg) ==
    [error |-> msg, extractedContent |-> Undefined,
     includeInMemory |-> TRUE, isDone |-> FALSE]

\* Results of a previous step handed to addStateMessage.
PriorResults ==
    { <<>>,
      << OkResult("content", FALSE), ErrorResult("boom") >>,
      << OkResult("msg", TRUE), ErrorResult("boom") >>,
      << StepErrorResult("long error") >> }

SumTokens(msgs) ==
    LET RECURSIVE Sum(_)
        Sum(j) == IF j = 0 THEN 0 ELSE msgs[j].inputTokens + Sum(j - 1)
    IN  Sum(Len(msgs))

\* What a call of a MessageManager method found and how it ended.
CallRecord(op, h, budget, err) ==
    [op |-> op,
     over |-> h.totalTokens > budget,
     diff |-> h.totalTokens - budget,
     lastTokens |-> h.messages[Len(h.messages)].inputTokens,
     lastImages |-> h.messages[Len(h.messages)].message.images,
     err |-> err,
     lenBefore |-> Len(h.messages),
     result |-> <<>>]

\* State after `new MessageManager(...)`.
InitMM ==
    /\ \E sl \in SystemLens, tl \in TaskLens : history = ConstructHistory(sl, tl)
    /\ maxInputTokens \in Budgets
    /\ mmLast = NoCall
    /\ CtlParked
    /\ AgentParked
    /\ BrowserParked
    /\ ExtParked

MMAddStateMessage ==
    /\ \E st \in BrowserStates, res \in PriorResults :
          LET h == AddStateMessage(history, st, res) IN
          /\ Len(h.messages) <= MaxMessages
          /\ history' = h
          /\ mmLast' = [CallRecord("addStateMessage", history, maxInputTokens,
                                    "none") EXCEPT !.result = res]
    /\ UNCHANGED maxInputTokens
    /\ UNCHANGED <<ctlVars, agentVars, browserVars, extVars>>

MMAddModelOutput ==
    /\ Len(history.messages) < MaxMessages
    /\ \E ol \in OutputLens : history' = AddModelOutput(history, ol)
    /\ mmLast' = CallRecord("addModelOutput", history, maxInputTokens, "none")
    /\ UNCHANGED maxInputTokens
    /\ UNCHANGED <<ctlVars, agentVars, browserVars, extVars>>

MMRemoveLastStateMessage ==
    /\ LET r == RemoveLastStateMessage(history) IN
          /\ history' = r.h
          /\ mmLast' = CallRecord("removeLastStateMessage", history,
                                  maxInputTokens, r.err)
    /\ UNCHANGED maxInputTokens
    /\ UNCHANGED <<ctlVars, agentVars, browserVars, extVars>>

MMGetMessages ==
    /\ LET r == GetMessages(history, maxInputTokens) IN
          /\ history' = r.h
          /\ mmLast' = CallRecord("getMessages", history, maxInputTokens, r.err)
    /\ UNCHANGED maxInputTokens
    /\ UNCHANGED <<ctlVars, agentVars, browserVars, extVars>>

NextMM ==
    \/ MMAddStateMessage
    \/ MMAddModelOutput
    \/ MMRemoveLastStateMessage
    \/ MMGetMessages

SpecMM == InitMM /\ [][NextMM]_vars

(***************************************************************************)
(* Claims about the context window manager (checked under SpecMM)          *)
(***************************************************************************)
\* C5: in every reachable state, calls that failed part-way included,
\* history.totalTokens is the sum of the records' token counts.
C5_TotalIsSumOfRecords ==
    history.totalTokens = SumTokens(history.messages)

\* C5 witness: a getMessages call that dropped an image and then failed.
C5_Witness ==
    /\ mmLast.op = "getMessages"
    /\ mmLast.err # "none"
    /\ mmLast.lastImages > 0
    /\ Len(history.messages) >= 4

\* C6: a getMessages call made over budget either returns with the total
\* within the budget or fails with the context-overflow error.
C6_WithinBudgetOrOverflow ==
    (mmLast.op = "getMessages" /\ mmLast.over) =>
       \/ mmLast.err = "none" /\ history.totalTokens <= maxInputTokens
       \/ mmLast.err = "MaxTokenLimit"

\* C7: over budget, the newest message without image: when the overage is
\* at most 99% of the newest message's cost the call returns with the total
\* within the budget; when it is more the call fails with the overflow error.
C7_TrimsNewestOrOverflows ==
    (mmLast.op = "getMessages" /\ mmLast.over /\ mmLast.lastImages = 0) =>
       IF mmLast.diff * 100 <= 99 * mmLast.lastTokens
       THEN mmLast.err = "none" /\ history.totalTokens <= maxInputTokens
       ELSE mmLast.err = "MaxTokenLimit"

(***************************************************************************)
(* Agent (the Agent class of agent/message_manager/service.js)             *)
(***************************************************************************)
\* An exception reaching step()'s catch: its name, whether its message
\* includes 'validation failed' and 'Max token limit reached', its text.
StepError(name, validationFailed, maxToken, text) ==
    [name |-> name, validationFailed |-> validationFailed,
     maxToken |-> maxToken, text |-> text]

\* The errors MessageManager methods throw, as step() sees them.
ErrorOfMM(err) ==
    IF err = "TypeError"
    THEN StepError("TypeError", FALSE, FALSE, "Cannot read properties of undefined")
    ELSE StepError("Error", FALSE, TRUE, "Max token limit reached")

\* The error multiAct rejects with.
ErrorOfDispatch(err) == StepError("Error", FALSE, FALSE, err.text)

\* Errors the browser session or the LLM client can raise.
EnvErrors == {
    StepError("Error", FALSE, FALSE, "other"),
    StepError("RateLimitError", FALSE, FALSE, "rate limited"),
    StepError("Error", TRUE, FALSE, "validation failed"),
    StepError("Error", TRUE, TRUE, "validation failed: Max token limit reached") }

\* _handleStepError.  The re-trim of the validation branch runs before the
\* counter is incremented; an exception in it leaves the handler (threw).
HandleStepError(e, failures, h, agentBudget, mmBudget) ==
    LET reTrim == e.validationFailed /\ e.maxToken
        budget == IF reTrim THEN agentBudget - 500 ELSE mmBudget
        cut    == IF reTrim THEN CutMessages(h, budget) ELSE Outcome(h, "none")
        threw  == cut.err # "none"
    IN  [threw |-> threw,
         retrimmed |-> reTrim,
         h |-> cut.h,
         budget |-> budget,
         failures |-> IF threw THEN failures ELSE failures + 1,
         timer |-> ~e.validationFailed /\ e.name = "RateLimitError",
         result |-> IF threw THEN <<>> ELSE << StepErrorResult(e.text) >>]

MaxActionsPerStep == 10

TruncatePlanNever(as) == as
\* getNextAction: response.action.slice(0, this.maxActionsPerStep).
TruncatePlan(as) == SubSeq(as, 1, Min(Len(as), MaxActionsPerStep))

\* Controller.multiAct run to its end: every list of results it can return
\* and every error it can reject with.
RECURSIVE MultiActFrom(_, _, _, _, _)
MultiActFrom(reg, as, hasBrowser, i, acc) ==
    IF i > Len(as) THEN {[results |-> acc, thrown |-> NoError]}
    ELSE
      LET err == ExecuteActionCheck(reg, as[i].name, as[i].params, hasBrowser) IN
      IF err # NoError THEN {[results |-> acc, thrown |-> err]}
      ELSE UNION {
             IF ShouldBreak(r)
             THEN {[results |-> Append(acc, r), thrown |-> NoError]}
             ELSE MultiActFrom(reg, as, hasBrowser, i + 1, Append(acc, r)) :
             r \in ImplOutcomes(reg[as[i].name].impl,
                                ConstructParams(reg[as[i].name].paramModel,
                                                as[i].params)) }

MultiActOutcomes(reg, as, hasBrowser) == MultiActFrom(reg, as, hasBrowser, 1, <<>>)

\* Truthiness of a parameter value (`params && ...`, `params.index && ...`).
Truthy(v) ==
    CASE v.kind = "int" -> v.num # 0
      [] v.kind = "str" -> v.str # ""
      [] v.kind = "obj" -> TRUE
      [] OTHER -> FALSE

\* _getInteractedElements: the elements of the actions, in order, for
\* which `params && params.index && selectorMap[params.index]` is truthy.
RECURSIVE GetInteractedElements(_, _)
GetInteractedElements(as, selectorMap) ==
    IF as = <<>> THEN <<>>
    ELSE LET params == Head(as).params
             index  == PropertyOf(params, "index")
         IN  (IF /\ Truthy(params)
                 /\ Truthy(index)
                 /\ index.num \in DOMAIN selectorMap
              THEN << selectorMap[index.num] >> ELSE <<>>)
             \o GetInteractedElements(Tail(as), selectorMap)

\* _makeHistoryItem: the item it builds ([null] without a model output).
HistoryItem(modelOutput, state, result) ==
    [modelOutput |-> modelOutput, result |-> result,
     state |-> [url |-> state.url, screenshot |-> state.screenshot,
                interactedElements |->
                   IF modelOutput.present
                   THEN GetInteractedElements(modelOutput.actions,
                                              state.selectorMap)
                   ELSE << "null" >>]]

MakeHistoryItemAtFront(hist, modelOutput, state, result) ==
    << HistoryItem(modelOutput, state, result) >> \o hist
\* _makeHistoryItem: this.history.history.push(historyItem).
MakeHistoryItem(hist, modelOutput, state, result) ==
    Append(hist, HistoryItem(modelOutput, state, result))

(***************************************************************************)
(* Bounds and inputs of the orchestrator                                   *)
(***************************************************************************)
MaxSteps == 2

MaxFailuresChoices == {1, 2}
AgentBudgets == {1510, 128000}
\* The index map of a captured state: highlight index -> element.
StepSelectorMap == [k \in {0, 1} |-> IF k = 0 THEN "button" ELSE "div"]
AgentStates == [url : {"u"}, screenshot : BOOLEAN, textLen : {3000},
                selectorMap : {StepSelectorMap}]
Plans == {[present |-> TRUE, actions |-> as, len |-> 90] :
             as \in {<<>>,
                     << [name |-> "done", params |-> StrV("k")] >>,
                     << [name |-> "click_element",
                         params |-> PlannerObject("index", IntV(0))],
                        [name |-> "click_element",
                         params |-> PlannerObject("index", IntV(1))],
                        [name |-> "nope", params |-> ObjV] >>,
                     [i \in 1..(MaxActionsPerStep + 1) |->
                        [name |-> "click_element", params |-> IntV(1)]]}}

\* State after `new Agent(task, llm, browser, browserContext, controller)`.
InitAgent ==
    /\ registry = RegisterAll(EmptyRegistry,
                     DefaultRegistrations
                     \o << Registration("done", "DoneAction", FALSE, "done"),
                           Registration("click_element", "ClickElementAction",
                                        TRUE, "click_element") >>)
    /\ ctlPc = "none"
    /\ actions = <<>>
    /\ browser = FALSE
    /\ idx = 1
    /\ results = <<>>
    /\ inflight = {}
    /\ implStage = 0
    /\ events = <<>>
    /\ execLog = <<>>
    /\ thrown = NoError
    /\ agentMaxInputTokens \in AgentBudgets
    /\ maxInputTokens = agentMaxInputTokens
    /\ \E sl \in SystemLens, tl \in TaskLens : history = ConstructHistory(sl, tl)
    /\ mmLast = NoCall
    /\ stepPc = "idle"
    /\ consecutiveFailures = 0
    /\ maxFailures \in MaxFailuresChoices
    /\ lastResult = <<>>
    /\ runHistory = <<>>
    /\ stState = NoState
    /\ stResult = <<>>
    /\ stModelOutput = NoPlan
    /\ stepLog = NoStepLog
    /\ nCalls = 0
    /\ otherCall = CallLocals("idle")
    /\ retryTimers = 0
    /\ BrowserParked
    /\ ExtParked

\* step(): let state = null, modelOutput = null, result = []; the call
\* suspends at `await this.browserContext.getState(...)`.
StepCall ==
    /\ stepPc = "idle"
    /\ nCalls < MaxSteps
    /\ nCalls' = nCalls + 1
    /\ stepPc' = "getState"
    /\ stState' = NoState
    /\ stModelOutput' = NoPlan
    /\ stResult' = <<>>
    /\ stepLog' = [before |-> consecutiveFailures, failed |-> FALSE,
                   errText |-> "<none>", handlerThrew |-> FALSE,
                   outcome |-> "running", planned |-> <<>>,
                   histBefore |-> Len(runHistory), telemetry |-> "none",
                   budgetBefore |-> maxInputTokens, retrimmed |-> FALSE]
    /\ UNCHANGED <<consecutiveFailures, maxFailures, lastResult, runHistory,
                   agentMaxInputTokens, otherCall, retryTimers>>
    /\ UNCHANGED <<ctlVars, mmVars, browserVars, extVars>>

\* The catch block and the synchronous start of the finally block, entered
\* with exception e when the history is h.  When the handler itself
\* throws, `result` is still [] and the finally block's `return` ends the
\* call normally, discarding the exception.
EnterCatch(e, h, planned) ==
    LET r == HandleStepError(e, consecutiveFailures, h,
                             agentMaxInputTokens, maxInputTokens)
    IN  /\ history' = r.h
        /\ maxInputTokens' = r.budget
        /\ consecutiveFailures' = r.failures
        /\ retryTimers' = IF r.timer THEN retryTimers + 1 ELSE retryTimers
        /\ stResult' = r.result
        /\ lastResult' = IF r.threw THEN lastResult ELSE r.result
        /\ stepPc' = IF r.threw THEN "idle" ELSE "telemetry"
        /\ stepLog' = [stepLog EXCEPT !.failed = TRUE, !.errText = e.text,
                                      !.handlerThrew = r.threw,
                                      !.retrimmed = r.retrimmed,
                                      !.planned = planned,
                                      !.outcome = IF r.threw THEN "returned"
                                                  ELSE "running"]
        /\ UNCHANGED runHistory

\* The finally block entered after the try block completed with `result`.
EnterFinally(result, planned) ==
    IF result = <<>>
    THEN /\ stepPc' = "idle"
         /\ stepLog' = [stepLog EXCEPT !.outcome = "returned",
                                       !.planned = planned]
         /\ UNCHANGED runHistory
    ELSE IF \E j \in 1..Len(result) : TruthyStr(result[j].error)
    THEN /\ stepPc' = "telemetry"
         /\ stepLog' = [stepLog EXCEPT !.planned = planned]
         /\ UNCHANGED runHistory
    ELSE /\ stepPc' = "idle"
         /\ stepLog' = [stepLog EXCEPT !.outcome = "returned",
                                       !.planned = planned]
         /\ runHistory' = MakeHistoryItem(runHistory, stModelOutput',
                                           stState, result)

\* getState settles; on success addStateMessage and getMessages run and
\* the call suspends at `await this.getNextAction(...)`.
StepGetState ==
    /\ stepPc = "getState"
    /\ \/ \E e \in EnvErrors :
             /\ EnterCatch(e, history, <<>>)
             /\ UNCHANGED stState
       \/ \E st \in AgentStates :
             LET g == GetMessages(AddStateMessage(history, st, lastResult),
                                  maxInputTokens)
             IN  /\ stState' = st
                 /\ IF g.err = "none"
                    THEN /\ history' = g.h
                         /\ stepPc' = "llm"
                         /\ UNCHANGED <<maxInputTokens, consecutiveFailures,
                                        stResult, lastResult, stepLog,
                                        runHistory, retryTimers>>
                    ELSE EnterCatch(ErrorOfMM(g.err), g.h, <<>>)
    /\ UNCHANGED <<stModelOutput, maxFailures, nCalls, agentMaxInputTokens,
                   mmLast, otherCall>>
    /\ UNCHANGED <<ctlVars, browserVars, extVars>>

\* getNextAction settles; on success the state message is dropped, the
\* model output appended and the actions executed through multiAct.
StepLLM ==
    /\ stepPc = "llm"
    /\ \/ \E e \in EnvErrors :
             /\ EnterCatch(e, history, <<>>)
             /\ UNCHANGED stModelOutput
       \/ \E plan \in Plans :
             LET out == [plan EXCEPT !.actions = TruncatePlan(plan.actions)]
                 rl  == RemoveLastStateMessage(history)
             IN  /\ stModelOutput' = out
                 /\ IF rl.err # "none"
                    THEN EnterCatch(ErrorOfMM(rl.err), rl.h, plan.actions)
                    ELSE LET h2 == AddModelOutput(rl.h, out.len) IN
                         \E run \in MultiActOutcomes(registry, out.actions, TRUE) :
                            IF run.thrown # NoError
                            THEN EnterCatch(ErrorOfDispatch(run.thrown), h2, plan.actions)
                            ELSE /\ history' = h2
                                 /\ stResult' = run.results
                                 /\ lastResult' = run.results
                                 /\ consecutiveFailures' = 0
                                 /\ EnterFinally(run.results, plan.actions)
                                 /\ UNCHANGED <<maxInputTokens, retryTimers>>
    /\ UNCHANGED <<stState, maxFailures, nCalls, agentMaxInputTokens, mmLast,
                   otherCall>>
    /\ UNCHANGED <<ctlVars, browserVars, extVars>>

\* _captureTelemetry: everything works, a chrome.storage.local call
\* rejects (outside the try), or the fetch rejects (inside it, caught).
TelemetryOutcomes == {"ok", "storageFailed", "deliveryFailed"}

\* The finally block's `await this._captureTelemetry(...)` settles: the
\* storage calls in it are outside its try, so their failure rejects
\* step(); otherwise the history item is made when a state was captured.
StepTelemetry ==
    /\ stepPc = "telemetry"
    /\ stepPc' = "idle"
    /\ \E tel \in TelemetryOutcomes :
          IF tel # "storageFailed"
          THEN /\ stepLog' = [stepLog EXCEPT !.outcome = "returned",
                                             !.telemetry = tel]
               /\ runHistory' = IF stState # NoState
                                THEN MakeHistoryItem(runHistory, stModelOutput,
                                                     stState, stResult)
                                ELSE runHistory
          ELSE /\ stepLog' = [stepLog EXCEPT !.outcome = "thrown",
                                             !.telemetry = tel]
               /\ UNCHANGED runHistory
    /\ UNCHANGED <<consecutiveFailures, maxFailures, lastResult, stState,
                   stResult, stModelOutput, nCalls, agentMaxInputTokens,
                   otherCall, retryTimers>>
    /\ UNCHANGED <<ctlVars, mmVars, browserVars, extVars>>

\* A timer armed by the RateLimitError branch expires.  Its callback is
\* `() => {}`: nothing but the timer itself changes.
RetryTimerFires ==
    /\ retryTimers > 0
    /\ retryTimers' = retryTimers - 1
    /\ UNCHANGED <<stepPc, consecutiveFailures, maxFailures, lastResult,
                   runHistory, stState, stResult, stModelOutput, stepLog,
                   nCalls, agentMaxInputTokens, otherCall>>
    /\ UNCHANGED <<ctlVars, mmVars, browserVars, extVars>>

NextAgent ==
    StepCall \/ StepGetState \/ StepLLM \/ StepTelemetry \/ RetryTimerFires

SpecAgent == InitAgent /\ [][NextAgent]_vars

MaxOverlapCalls == 2

\* step() has no guard against re-entry: a caller that does not await the
\* pending call can invoke step() again, and the event loop resumes either
\* call when its await settles.  The variables st* hold the locals of the
\* call that runs next, otherCall those of the other one; SwitchCall hands
\* the turn over (to a suspended call, or to the caller for a new step()).
SwitchCall ==
    /\ stepPc # "idle" \/ otherCall.pc # "idle"
    /\ otherCall.pc = "idle" => nCalls < MaxOverlapCalls
    /\ stepPc' = otherCall.pc
    /\ stState' = otherCall.state
    /\ stResult' = otherCall.result
    /\ stModelOutput' = otherCall.modelOutput
    /\ stepLog' = otherCall.log
    /\ otherCall' = [pc |-> stepPc, state |-> stState, result |-> stResult,
                     modelOutput |-> stModelOutput, log |-> stepLog]
    /\ UNCHANGED <<consecutiveFailures, maxFailures, lastResult, runHistory,
                   nCalls, agentMaxInputTokens, retryTimers>>
    /\ UNCHANGED <<ctlVars, mmVars, browserVars, extVars>>

\* step() invoked by a caller that may have another call pending.
OverlapStepCall ==
    /\ nCalls < MaxOverlapCalls
    /\ StepCall

NextAgentOverlap ==
    \/ OverlapStepCall \/ StepGetState \/ StepLLM \/ StepTelemetry
    \/ SwitchCall \/ RetryTimerFires

\* The overlap runs use one configuration: the default budget.
InitAgentOverlap ==
    /\ InitAgent
    /\ agentMaxInputTokens = 128000
    /\ maxFailures = 2

SpecAgentOverlap == InitAgentOverlap /\ [][NextAgentOverlap]_vars

(***************************************************************************)
(* Claims about the orchestrator (checked under SpecAgent)                 *)
(***************************************************************************)
StepEnded == stepPc = "idle" /\ nCalls > 0

\* C8: whatever exception a step meets, step() returns normally to its
\* caller, the failure stored as a one-item error result in lastResult.
C8_StepErrorsCaught ==
    (StepEnded /\ stepLog.failed) =>
       /\ stepLog.outcome = "returned"
       /\ Len(lastResult) = 1
       /\ lastResult[1].error = stepLog.errText

\* C9: for every class of step exception the step's outcome is exactly one
\* result with error set and includeInMemory true, and the consecutive
\* failure counter is one higher than before the step.
C9_OneErrorResultAndIncrement ==
    (StepEnded /\ stepLog.failed) =>
       /\ Len(stResult) = 1
       /\ TruthyStr(stResult[1].error)
       /\ stResult[1].includeInMemory
       /\ consecutiveFailures = stepLog.before + 1

\* C10: the consecutive-failure counter never exceeds maxFailures, and no
\* step captures state or plans once the counter has reached it.
C10_StopsAtMaxFailures ==
    /\ consecutiveFailures <= maxFailures
    /\ stepPc \in {"getState", "llm"} => stepLog.before < maxFailures

\* A plan whose every action is dispatched and whose every possible outcome
\* is a result without error.
PlanSucceeds(as) ==
    \A i \in 1..Len(as) :
       /\ ExecuteActionCheck(registry, as[i].name, as[i].params, TRUE) = NoError
       /\ \A r \in ImplOutcomes(registry[as[i].name].impl,
                                 ConstructParams(registry[as[i].name].paramModel,
                                                 as[i].params)) :
              ~TruthyStr(r.error)

\* C11: a step whose state capture succeeded, whose context was within
\* budget, whose LLM call returned a plan and whose planned actions are all
\* registered and succeed ends outside the failure branch, its results
\* stored as the last result and the consecutive-failure counter at 0.
C11_SuccessfulStepResetsCounter ==
    (StepEnded /\ stModelOutput.present /\ PlanSucceeds(stModelOutput.actions)) =>
       /\ ~stepLog.failed
       /\ lastResult = stResult
       /\ consecutiveFailures = 0

\* C12: every completed step() call has appended exactly one item to the
\* run history.
C12_OneHistoryItemPerStep ==
    StepEnded => Len(runHistory) = stepLog.histBefore + 1

\* C13: the run history is append-only: every step of the program leaves
\* the items already present where they are, unchanged.
C13_HistoryAppendOnly ==
    [][/\ Len(runHistory') >= Len(runHistory)
       /\ SubSeq(runHistory', 1, Len(runHistory)) = runHistory]_vars

C13_Witness ==
    /\ Len(runHistory) >= 2
    /\ runHistory[1] # runHistory[2]

\* C14: the action list a step works with is the prefix of the planner's
\* list of length min(len, maxActionsPerStep); it never holds more than
\* maxActionsPerStep actions.
C14_PlanTruncated ==
    stModelOutput.present =>
       /\ Len(stModelOutput.actions) <= MaxActionsPerStep
       /\ Len(stModelOutput.actions) <= Len(stepLog.planned)
       /\ Len(stepLog.planned) <= MaxActionsPerStep
             => Len(stModelOutput.actions) = Len(stepLog.planned)
       /\ Len(stepLog.planned) > MaxActionsPerStep
             => Len(stModelOutput.actions) = MaxActionsPerStep
       /\ \A i \in 1..Len(stModelOutput.actions) :
              stModelOutput.actions[i] = stepLog.planned[i]

C14_Witness ==
    /\ stModelOutput.present
    /\ Len(stepLog.planned) > MaxActionsPerStep
    /\ Len(stModelOutput.actions) = MaxActionsPerStep

\* C15: at most one step() call is active at any time: a call made while
\* another is suspended does nothing until that one has finished.
C15_OneActiveStep ==
    ~(stepPc \notin {"idle", "none"} /\ otherCall.pc \notin {"idle", "none"})

(***************************************************************************)
(* Browser session (BrowserContext of browser/context.js, CDPService of    *)
(* browser/cdpService.js as listed in browser/README.md)                   *)
(***************************************************************************)
\* Chrome tab ids, and the tabs open when the session is created.
TabIds == {1, 2, 3}
InitialTabs == {1, 2}

\* initialize sends Page.enable, Network.enable, DOM.enable and
\* Emulation.setDeviceMetricsOverride.
InitCommands == 4

\* A BrowserContext call: the method, its target tab, the await it is
\* suspended at, what follows the pending detach, the debuggee handed to
\* the pending chrome.debugger request, the number of the pending
\* initialize command; observations: the attach / detach events of the
\* call, the tabs attached when it was made, how it ended.
IdleCall == [op |-> "none", tab |-> NullTab, pc |-> "idle", cont |-> "none",
             sent |-> NullTab, cmds |-> 0, trace |-> <<>>, before |-> {},
             outcome |-> "none"]

St(S, c) == [sess |-> S, call |-> c]
\* The call rejects / resolves.
Fail(S, c) == St(S, [c EXCEPT !.pc = "idle", !.outcome = "failed"])
Finish(S, c) == St(S, [c EXCEPT !.pc = "idle", !.outcome = "ok"])

\* CDPService.attach after its detach: this.tabId = tabId; this.debuggee =
\* {tabId}; chrome.debugger.attach(this.debuggee, ...) is issued.
IssueAttach(S, c, att) ==
    St([S EXCEPT !.cdp.tabId = c.tab, !.cdp.debuggee = c.tab],
       [c EXCEPT !.pc = "attachPending", !.sent = c.tab,
                 !.trace = Append(@, [ev |-> "attach", tab |-> c.tab,
                                      attached |-> att])])

\* CDPService.detach with a debuggee: chrome.debugger.detach is issued.
IssueDetach(S, c, cont) ==
    St(S, [c EXCEPT !.pc = "detachPending", !.sent = S.cdp.debuggee,
                    !.cont = cont])

CdpAttachNoDetach(S, c, att) == IssueAttach(S, c, att)
\* CdpService.attach(tabId): if (this.debuggee) await this.detach().
CdpAttach(S, c, att) ==
    IF S.cdp.debuggee # NullTab
    THEN IssueDetach(S, c, "attach")
    ELSE IssueAttach(S, c, att)

\* BrowserContext.initialize up to its first await.
Initialize(S, c, att) ==
    CdpAttach(IF S.cdp.exists THEN S
              ELSE [S EXCEPT !.cdp = [NoCdp EXCEPT !.exists = TRUE]],
              c, att)

\* What runs when the awaited detach has settled.
AfterDetach(S, c, att) ==
    CASE c.cont = "attach"     -> IssueAttach(S, c, att)
      [] c.cont = "initialize" -> Initialize(S, c, att)
      [] OTHER                 -> Finish([S EXCEPT !.cdp = NoCdp,
                                                   !.currentTabId = NullTab,
                                                   !.tabs = {}], c)

\* `await this.cdp.detach()` in switchToTab, createNewTab and close: a
\* TypeError when this.cdp is null; detach returns at once without debuggee.
DetachThen(S, c, cont, att) ==
    IF ~S.cdp.exists THEN Fail(S, c)
    ELSE IF S.cdp.debuggee = NullTab
    THEN AfterDetach(S, [c EXCEPT !.cont = cont], att)
    ELSE IssueDetach(S, c, cont)

\* CDPService.sendCommand up to its await: throws without debuggee.
SendCommand(S, c, k, pc) ==
    IF S.cdp.debuggee = NullTab THEN Fail(S, c)
    ELSE St(S, [c EXCEPT !.pc = pc, !.sent = S.cdp.debuggee, !.cmds = k])

\* initialize after `await this.cdp.attach(tabId)` resolved.
AfterAttach(S, c) ==
    SendCommand([S EXCEPT !.currentTabId = c.tab, !.tabs = @ \cup {c.tab}],
                c, 1, "cmdPending")

\* initialize after one of its commands resolved; after the last one the
\* caller continues (switchToTab activates the tab).
AfterCommand(S, c) ==
    IF c.cmds < InitCommands THEN SendCommand(S, c, c.cmds + 1, "cmdPending")
    ELSE IF c.op = "switchToTab" THEN St(S, [c EXCEPT !.pc = "tabsUpdatePending"])
    ELSE Finish(S, c)

(***************************************************************************)
(* Bounds and actions of the browser session                               *)
(***************************************************************************)
MaxSessionCalls == 4
MaxPendingCalls == 2
MaxOverlapSessionCalls == 2

\* State after `new BrowserContext(config)`; the caller awaits every call
\* before it makes the next one (one call slot).
InitSession ==
    /\ sess \in [cdp : {NoCdp}, currentTabId : {NullTab}, tabs : {{}},
                 cookiesFile : BOOLEAN]
    /\ chrome = [tabs |-> InitialTabs, attached |-> {}]
    /\ sessCalls = << IdleCall >>
    /\ nSessCalls = 0
    /\ NetParked
    /\ CtlParked
    /\ MMParked
    /\ AgentParked
    /\ ExtParked

SessSet(s, r) ==
    /\ sess' = r.sess
    /\ sessCalls' = [sessCalls EXCEPT ![s] = r.call]

NewCall(op, t) == [IdleCall EXCEPT !.op = op, !.tab = t,
                                   !.before = chrome.attached]

CanCall(s) == sessCalls[s].pc = "idle" /\ nSessCalls < MaxSessionCalls

\* initialize(tabId).
InitializeCall ==
    \E s \in DOMAIN sessCalls, t \in TabIds :
       /\ CanCall(s)
       /\ SessSet(s, Initialize(sess, NewCall("initialize", t), chrome.attached))
       /\ nSessCalls' = nSessCalls + 1
       /\ UNCHANGED <<chrome, netVars, ctlVars, mmVars, agentVars, extVars>>

\* switchToTab(tabId): if (this.currentTabId === tabId) return.
SwitchToTabCall ==
    \E s \in DOMAIN sessCalls, t \in TabIds :
       /\ CanCall(s)
       /\ SessSet(s, IF sess.currentTabId = t
                     THEN Finish(sess, NewCall("switchToTab", t))
                     ELSE DetachThen(sess, NewCall("switchToTab", t),
                                     "initialize", chrome.attached))
       /\ nSessCalls' = nSessCalls + 1
       /\ UNCHANGED <<chrome, netVars, ctlVars, mmVars, agentVars, extVars>>

\* createNewTab(url): chrome.tabs.create is issued.
CreateNewTabCall ==
    \E s \in DOMAIN sessCalls :
       /\ CanCall(s)
       /\ SessSet(s, St(sess, [NewCall("createNewTab", NullTab)
                                 EXCEPT !.pc = "tabsCreatePending"]))
       /\ nSessCalls' = nSessCalls + 1
       /\ UNCHANGED <<chrome, netVars, ctlVars, mmVars, agentVars, extVars>>

\* close(): with a cdp, saveCookies (a no-op without cookiesFile), then
\* detach; without one only the bookkeeping is cleared.
CloseCall ==
    \E s \in DOMAIN sessCalls :
       /\ CanCall(s)
       /\ SessSet(s, IF ~sess.cdp.exists
                     THEN Finish([sess EXCEPT !.currentTabId = NullTab,
                                              !.tabs = {}], NewCall("close", NullTab))
                     ELSE IF sess.cookiesFile
                     THEN SendCommand(sess, NewCall("close", NullTab), 0,
                                      "cookiesPending")
                     ELSE DetachThen(sess, NewCall("close", NullTab), "close",
                                     chrome.attached))
       /\ nSessCalls' = nSessCalls + 1
       /\ UNCHANGED <<chrome, netVars, ctlVars, mmVars, agentVars, extVars>>

\* The callback of chrome.debugger.detach runs (an error is ignored):
\* this.debuggee = null, this.tabId = null, and the awaiting call goes on.
DetachReply ==
    \E s \in DOMAIN sessCalls :
       /\ sessCalls[s].pc = "detachPending"
       /\ LET c    == sessCalls[s]
              att2 == chrome.attached \ {c.sent}
              S1   == [sess EXCEPT !.cdp.debuggee = NullTab, !.cdp.tabId = NullTab]
              c1   == [c EXCEPT !.trace = Append(@, [ev |-> "detached",
                                                     tab |-> c.sent,
                                                     attached |-> att2])]
          IN  /\ chrome' = [chrome EXCEPT !.attached = att2]
              /\ SessSet(s, AfterDetach(S1, c1, att2))
       /\ UNCHANGED <<nSessCalls, netVars, ctlVars, mmVars, agentVars, extVars>>

\* The callback of chrome.debugger.attach runs: the browser refuses a tab
\* that does not exist or is attached already, and may refuse any other.
AttachReply ==
    \E s \in DOMAIN sessCalls, ok \in BOOLEAN :
       /\ sessCalls[s].pc = "attachPending"
       /\ LET c == sessCalls[s]
              succ == ok /\ c.sent \in chrome.tabs /\ c.sent \notin chrome.attached
          IN  IF succ
              THEN /\ chrome' = [chrome EXCEPT !.attached = @ \cup {c.sent}]
                   /\ SessSet(s, AfterAttach(sess, c))
              ELSE /\ UNCHANGED chrome
                   /\ SessSet(s, Fail(sess, c))
       /\ UNCHANGED <<nSessCalls, netVars, ctlVars, mmVars, agentVars, extVars>>

\* The callback of chrome.debugger.sendCommand runs for a command of
\* initialize: it fails when the debuggee is not attached (or otherwise).
CommandReply ==
    \E s \in DOMAIN sessCalls, ok \in BOOLEAN :
       /\ sessCalls[s].pc = "cmdPending"
       /\ LET c == sessCalls[s] IN
          SessSet(s, IF ok /\ c.sent \in chrome.attached
                     THEN AfterCommand(sess, c) ELSE Fail(sess, c))
       /\ UNCHANGED <<chrome, nSessCalls, netVars, ctlVars, mmVars, agentVars, extVars>>

\* chrome.tabs.create calls back with the new tab; createNewTab detaches.
TabsCreateReply ==
    \E s \in DOMAIN sessCalls :
       /\ sessCalls[s].pc = "tabsCreatePending"
       /\ TabIds \ chrome.tabs # {}
       /\ LET t == CHOOSE x \in TabIds \ chrome.tabs :
                      \A y \in TabIds \ chrome.tabs : x <= y
          IN  /\ chrome' = [chrome EXCEPT !.tabs = @ \cup {t}]
              /\ SessSet(s, DetachThen(sess, [sessCalls[s] EXCEPT !.tab = t],
                                       "initialize", chrome.attached))
       /\ UNCHANGED <<nSessCalls, netVars, ctlVars, mmVars, agentVars, extVars>>

\* chrome.tabs.update(tabId, {active: true}) settles.
TabsUpdateReply ==
    \E s \in DOMAIN sessCalls, ok \in BOOLEAN :
       /\ sessCalls[s].pc = "tabsUpdatePending"
       /\ SessSet(s, IF ok /\ sessCalls[s].tab \in chrome.tabs
                     THEN Finish(sess, sessCalls[s]) ELSE Fail(sess, sessCalls[s]))
       /\ UNCHANGED <<chrome, nSessCalls, netVars, ctlVars, mmVars, agentVars, extVars>>

\* saveCookies: Network.getAllCookies settles; on success
\* chrome.storage.local.set is issued.  Neither is caught by close().
CookiesReply ==
    \E s \in DOMAIN sessCalls, ok \in BOOLEAN :
       /\ sessCalls[s].pc = "cookiesPending"
       /\ LET c == sessCalls[s] IN
          SessSet(s, IF ok /\ c.sent \in chrome.attached
                     THEN St(sess, [c EXCEPT !.pc = "storagePending"])
                     ELSE Fail(sess, c))
       /\ UNCHANGED <<chrome, nSessCalls, netVars, ctlVars, mmVars, agentVars, extVars>>

\* saveCookies: chrome.storage.local.set settles; close() goes on to detach.
StorageReply ==
    \E s \in DOMAIN sessCalls, ok \in BOOLEAN :
       /\ sessCalls[s].pc = "storagePending"
       /\ SessSet(s, IF ok
                     THEN DetachThen(sess, sessCalls[s], "close", chrome.attached)
                     ELSE Fail(sess, sessCalls[s]))
       /\ UNCHANGED <<chrome, nSessCalls, netVars, ctlVars, mmVars, agentVars, extVars>>

NextSession ==
    \/ InitializeCall \/ SwitchToTabCall \/ CreateNewTabCall \/ CloseCall
    \/ DetachReply \/ AttachReply \/ CommandReply
    \/ TabsCreateReply \/ TabsUpdateReply \/ CookiesReply \/ StorageReply

SpecSession == InitSession /\ [][NextSession]_vars

\* A caller that does not await: a second call can start while one is
\* suspended (two call slots).  close() is left to the awaiting caller.
InitSessionOverlap ==
    /\ sess = [cdp |-> NoCdp, currentTabId |-> NullTab, tabs |-> {},
               cookiesFile |-> FALSE]
    /\ chrome = [tabs |-> InitialTabs, attached |-> {}]
    /\ sessCalls = [s \in 1..MaxPendingCalls |-> IdleCall]
    /\ nSessCalls = 0
    /\ NetParked
    /\ CtlParked
    /\ MMParked
    /\ AgentParked
    /\ ExtParked

OverlapInitializeCall == nSessCalls < MaxOverlapSessionCalls /\ InitializeCall
OverlapSwitchToTabCall == nSessCalls < MaxOverlapSessionCalls /\ SwitchToTabCall
OverlapCreateNewTabCall == nSessCalls < MaxOverlapSessionCalls /\ CreateNewTabCall

NextSessionOverlap ==
    \/ OverlapInitializeCall \/ OverlapSwitchToTabCall \/ OverlapCreateNewTabCall
    \/ DetachReply \/ AttachReply \/ CommandReply
    \/ TabsCreateReply \/ TabsUpdateReply

SpecSessionOverlap == InitSessionOverlap /\ [][NextSessionOverlap]_vars

(***************************************************************************)
(* Claims about the browser session                                        *)
(***************************************************************************)
CallEnded(s, ops) ==
    /\ sessCalls[s].pc = "idle"
    /\ sessCalls[s].outcome = "ok"
    /\ sessCalls[s].op \in ops

\* C16: at most one tab is attached through the transport, and every
\* attach is issued only when the detach of the tab attached before has
\* completed (no tab is attached when chrome.debugger.attach is called).
C16_AtMostOneAttachment ==
    /\ Cardinality(chrome.attached) <= 1
    /\ \A s \in DOMAIN sessCalls :
          \A i \in 1..Len(sessCalls[s].trace) :
             sessCalls[s].trace[i].ev = "attach"
                => sessCalls[s].trace[i].attached = {}

C16_Witness ==
    \E s \in DOMAIN sessCalls :
       /\ CallEnded(s, {"initialize"})
       /\ sessCalls[s].before # {}
       /\ sessCalls[s].before # {sessCalls[s].tab}
       /\ chrome.attached = {sessCalls[s].tab}
       /\ Len(sessCalls[s].trace) = 2

\* C17: when switchToTab or createNewTab has completed successfully the
\* session is attached to exactly the target tab and records it as the
\* current tab, and within the call the detach precedes the attach.
C17_SwitchReattaches ==
    \A s \in DOMAIN sessCalls :
       CallEnded(s, {"switchToTab", "createNewTab"}) =>
          /\ chrome.attached = {sessCalls[s].tab}
          /\ sess.currentTabId = sessCalls[s].tab
          /\ \A i, j \in 1..Len(sessCalls[s].trace) :
                (sessCalls[s].trace[i].ev = "detached"
                 /\ sessCalls[s].trace[j].ev = "attach") => i < j

\* C18: whatever the interleaving of initialize / switchToTab / createNewTab
\* calls, never two tabs are attached at once, and a tab that is attached
\* is the one the session records as attached.
C18_MutuallyExclusive ==
    /\ Cardinality(chrome.attached) <= 1
    /\ chrome.attached \subseteq {sess.cdp.debuggee}

(***************************************************************************)
(* BrowserContext.waitForNetworkIdle.  Time advances in ticks of one       *)
(* second; a timer that is due fires before time advances further.         *)
(***************************************************************************)
\* config.waitForNetworkIdlePageLoadTime and config.maximumWaitPageLoadTime.
IdleWindow == 1
MaxWait == 5

RequestIds == {"r1", "r2"}
MaxTicks == 7

\* State after construction and initialize: no waitForNetworkIdle call yet.
InitNet ==
    /\ net = [NoWait EXCEPT !.pc = "idle"]
    /\ SessParked
    /\ CtlParked
    /\ MMParked
    /\ AgentParked
    /\ ExtParked

\* A reset that lets a timer already running run on.
ResetTimeoutKeepRunning(n) ==
    IF n.timeoutId >= 0 THEN n ELSE [n EXCEPT !.timeoutId = IdleWindow]
\* resetTimeout: clearTimeout(timeoutId); timeoutId = setTimeout(...).
ResetTimeout(n) == [n EXCEPT !.timeoutId = IdleWindow]

\* The ceiling timer: setTimeout(resolve, maximumWaitPageLoadTime * 1000).
CeilingTimerNever(n) == n
CeilingTimer(n) == [n EXCEPT !.ceiling = MaxWait]

\* waitForNetworkIdle(): the closure is set up and the call suspends at
\* `await this.cdp.sendCommand('Network.enable')`.
WaitCall ==
    /\ net.pc = "idle"
    /\ net' = [net EXCEPT !.pc = "enabling"]
    /\ UNCHANGED <<sessVars, ctlVars, mmVars, agentVars, extVars>>

\* Network.enable settles: on failure the call rejects; on success the
\* listener is added and the ceiling timer started, and the call suspends
\* at `await Promise.race([idlePromise, timeoutPromise])`.
EnableReply ==
    /\ net.pc = "enabling"
    /\ \E ok \in BOOLEAN :
          net' = IF ok
                 THEN CeilingTimer([net EXCEPT !.pc = "waiting"])
                 ELSE [net EXCEPT !.pc = "failed"]
    /\ UNCHANGED <<sessVars, ctlVars, mmVars, agentVars, extVars>>

\* requestListener: Network.requestWillBeSent for request r.
RequestWillBeSent ==
    /\ net.pc = "waiting"
    /\ \E r \in RequestIds :
          net' = ResetTimeout([net EXCEPT !.pendingRequests = @ \cup {r},
                                          !.observed = TRUE, !.quiet = 0,
                                          !.sinceStart = 0])
    /\ UNCHANGED <<sessVars, ctlVars, mmVars, agentVars, extVars>>

\* responseListener: Network.loadingFinished / loadingFailed for request r
\* (r may have started before the listener was added).
LoadingFinished ==
    /\ net.pc = "waiting"
    /\ \E r \in RequestIds :
          LET n == [net EXCEPT !.pendingRequests = @ \ {r}] IN
          net' = IF n.pendingRequests = {} THEN ResetTimeout(n) ELSE n
    /\ UNCHANGED <<sessVars, ctlVars, mmVars, agentVars, extVars>>

\* The idle timer fires: resolvePromise() when nothing is pending.
IdleTimerFires ==
    /\ net.pc = "waiting"
    /\ net.timeoutId = 0
    /\ net' = IF net.pendingRequests = {}
              THEN [net EXCEPT !.pc = "resolved", !.via = "idle", !.timeoutId = -1]
              ELSE [net EXCEPT !.timeoutId = -1]
    /\ UNCHANGED <<sessVars, ctlVars, mmVars, agentVars, extVars>>

\* The ceiling timer fires: timeoutPromise resolves and wins the race.
CeilingTimerFires ==
    /\ net.pc = "waiting"
    /\ net.ceiling = 0
    /\ net' = [net EXCEPT !.pc = "resolved", !.via = "ceiling", !.ceiling = -1]
    /\ UNCHANGED <<sessVars, ctlVars, mmVars, agentVars, extVars>>

\* One second passes while the call waits and no timer is due.
NetTick ==
    /\ net.pc = "waiting"
    /\ net.timeoutId # 0
    /\ net.ceiling # 0
    /\ net.elapsed < MaxTicks
    /\ net' = [net EXCEPT !.elapsed = @ + 1,
                          !.timeoutId = IF @ > 0 THEN @ - 1 ELSE @,
                          !.ceiling = IF @ > 0 THEN @ - 1 ELSE @,
                          !.quiet = IF net.pendingRequests = {} THEN @ + 1 ELSE 0,
                          !.sinceStart = IF @ >= 0 THEN @ + 1 ELSE @]
    /\ UNCHANGED <<sessVars, ctlVars, mmVars, agentVars, extVars>>

NextNet ==
    \/ WaitCall \/ EnableReply \/ RequestWillBeSent \/ LoadingFinished
    \/ IdleTimerFires \/ CeilingTimerFires \/ NetTick

SpecNet == InitNet /\ [][NextNet]_vars

\* Time passes and due timers fire.
SpecNetFair ==
    /\ SpecNet
    /\ WF_vars(NetTick)
    /\ WF_vars(IdleTimerFires)
    /\ WF_vars(CeilingTimerFires)

(***************************************************************************)
(* Claims about waitForNetworkIdle                                         *)
(***************************************************************************)
\* C19: once the listener is in place the wait always resolves, and never
\* lasts longer than the ceiling, whatever request events arrive.
C19_ResolvesByCeiling ==
    /\ [](net.pc = "waiting" => net.elapsed <= MaxWait)
    /\ (net.pc = "waiting" ~> net.pc = "resolved")

C19_Witness ==
    /\ net.pc = "resolved"
    /\ net.via = "ceiling"
    /\ net.pendingRequests # {}
    /\ net.elapsed = MaxWait

\* C20: the wait does not go on once no observed request has been in flight
\* for one full idle window (counted from the start of the wait, or from
\* the moment the last tracked request finished).
C20_ResolvesAfterIdleWindow ==
    net.pc = "waiting" => net.quiet <= IdleWindow

\* C21: when close() has finished (cookie persistence failing or not) the
\* call has returned normally and the session holds no attachment, no
\* current tab and no tab bookkeeping.
C21_CloseTearsDown ==
    \A s \in DOMAIN sessCalls :
       (sessCalls[s].pc = "idle" /\ sessCalls[s].op = "close") =>
          /\ sessCalls[s].outcome = "ok"
          /\ chrome.attached = {}
          /\ ~sess.cdp.exists
          /\ sess.currentTabId = NullTab
          /\ sess.tabs = {}

\* C22: a step whose telemetry call failed (storage or delivery) still
\* returns normally and, having captured a state, appends its history item.
C22_TelemetryFailureContained ==
    (StepEnded /\ stepLog.telemetry \in {"storageFailed", "deliveryFailed"}) =>
       /\ stepLog.outcome = "returned"
       /\ stState # NoState => Len(runHistory) = stepLog.histBefore + 1

(***************************************************************************)
(* DOM snapshots (DomService), serialization (DOMElementNode) and          *)
(* history matching (HistoryTreeProcessor)                                 *)
(***************************************************************************)
\* Strings that are taken apart or glued together are sequences of
\* pieces: attribute keys and values are sequences of characters, tag
\* names and text contents are single pieces.

\* Attribute maps, as Object.entries lists them (insertion order).
NoAttributes  == <<>>
AttributesAB  == << <<<<"a">>, <<"1">>>>,
                    <<<<"b">>, <<"2">>>> >>
AttributesA   == << <<<<"a">>, <<"1", "b", "=", "2">>>> >>

\* What the page script reports for one node.  `highlighted` tells
\* whether the raw node has a highlightIndex property at all.
RawElement(tag, interactive, highlighted, index, attrs) ==
    [type |-> "ELEMENT_NODE", tagName |-> tag, isInteractive |-> interactive,
     highlighted |-> highlighted, highlightIndex |-> index,
     attributes |-> attrs, text |-> ""]
RawText(text) ==
    [type |-> "TEXT_NODE", tagName |-> "", isInteractive |-> FALSE,
     highlighted |-> FALSE, highlightIndex |-> NullIndex,
     attributes |-> NoAttributes, text |-> text]

RawNodes == {
    RawElement("div", FALSE, FALSE, NullIndex, NoAttributes),
    RawElement("div", TRUE, TRUE, 1, NoAttributes),
    RawElement("button", TRUE, TRUE, 0, NoAttributes),
    RawElement("button", TRUE, TRUE, 1, AttributesAB),
    RawElement("button", TRUE, TRUE, 0, AttributesA),
    RawText("Go") }

MaxNodes == 3

\* A raw tree: its nodes in document order, each with the position of its
\* parent (0: the root).  Children are ordered by position.
RawTreesOfSize(n) ==
    { [j \in 1..n |-> [node |-> ns[j], parent |-> ps[j]]] :
        <<ns, ps>> \in
          { <<a, b>> \in [1..n -> RawNodes] \X [1..n -> 0..(n - 1)] :
              /\ b[1] = 0
              /\ a[1].type = "ELEMENT_NODE"
              /\ \A j \in 2..n : /\ b[j] \in 1..(j - 1)
                                 /\ a[b[j]].type = "ELEMENT_NODE" } }
RawTrees == UNION { RawTreesOfSize(n) : n \in 1..MaxNodes }

\* DomService._parseNode on every node of the raw tree: a text node keeps
\* its text and parent; an element gets the constructor's defaults, so a
\* missing highlightIndex becomes null.
ParseNode(raw) ==
    [j \in 1..Len(raw) |->
        IF raw[j].node.type = "TEXT_NODE"
        THEN [type |-> "TEXT_NODE", parent |-> raw[j].parent, tagName |-> "",
              attributes |-> NoAttributes, isInteractive |-> FALSE,
              highlightIndex |-> NullIndex, text |-> raw[j].node.text]
        ELSE [type |-> "ELEMENT_NODE", parent |-> raw[j].parent,
              tagName |-> raw[j].node.tagName,
              attributes |-> raw[j].node.attributes,
              isInteractive |-> raw[j].node.isInteractive,
              highlightIndex |-> IF raw[j].node.highlighted
                                 THEN raw[j].node.highlightIndex ELSE NullIndex,
              text |-> ""]]

IsElement(t, i) == t[i].type = "ELEMENT_NODE"

\* node.children, in order.
Children(t, i) ==
    LET RECURSIVE From(_)
        From(j) == IF j > Len(t) THEN <<>>
                   ELSE (IF t[j].parent = i THEN <<j>> ELSE <<>>) \o From(j + 1)
    IN  From(1)

EmptyMap == [k \in {} |-> 0]
\* selectorMap[key] = node.  A number used as a property key is turned
\* into its decimal string, and back when a number looks it up: distinct
\* indices give distinct keys.
Put(map, key, node) ==
    [k \in (DOMAIN map) \cup {key} |-> IF k = key THEN node ELSE map[k]]

RECURSIVE ProcessNode(_, _, _), ProcessNodes(_, _, _)
\* _createSelectorMap's processNode.
ProcessNode(t, i, map) ==
    IF ~IsElement(t, i) THEN map
    ELSE ProcessNodes(t, Children(t, i),
                      IF t[i].highlightIndex # NullIndex
                      THEN Put(map, t[i].highlightIndex, i) ELSE map)
ProcessNodes(t, cs, map) ==
    IF cs = <<>> THEN map
    ELSE ProcessNodes(t, Tail(cs), ProcessNode(t, Head(cs), map))

\* A selector map that looks at the root only.
CreateSelectorMapRootOnly(t) ==
    IF t[1].highlightIndex # NullIndex
    THEN Put(EmptyMap, t[1].highlightIndex, 1) ELSE EmptyMap

\* DomService._createSelectorMap.
CreateSelectorMap(t) == ProcessNode(t, 1, EmptyMap)

\* Array.join(separator) over pieces.
RECURSIVE Join(_, _)
Join(parts, sep) ==
    IF parts = <<>> THEN <<>>
    ELSE IF Len(parts) = 1 THEN Head(parts)
    ELSE Head(parts) \o <<sep>> \o Join(Tail(parts), sep)

\* String.trim over pieces.
RECURSIVE TrimStart(_)
TrimStart(s) == IF s # <<>> /\ Head(s) = " " THEN TrimStart(Tail(s)) ELSE s
RECURSIVE TrimEnd(_)
TrimEnd(s) ==
    IF s # <<>> /\ s[Len(s)] = " " THEN TrimEnd(SubSeq(s, 1, Len(s) - 1)) ELSE s
Trim(s) == TrimEnd(TrimStart(s))

RECURSIVE Traverse(_, _, _), TraverseChildren(_, _, _)
\* getAllTextTillNextClickableElement's traverse: the texts collected so
\* far and whether the walk was told to stop.  The walk starts at the
\* element itself, which is tested like every other node.
Traverse(t, i, texts) ==
    IF ~IsElement(t, i)
    THEN [stop |-> FALSE, texts |-> Append(texts, <<t[i].text>>)]
    ELSE IF t[i].isInteractive /\ t[i].highlightIndex # NullIndex
    THEN [stop |-> TRUE, texts |-> texts]
    ELSE TraverseChildren(t, Children(t, i), texts)
TraverseChildren(t, cs, texts) ==
    IF cs = <<>> THEN [stop |-> FALSE, texts |-> texts]
    ELSE LET r == Traverse(t, Head(cs), texts) IN
         IF r.stop THEN r ELSE TraverseChildren(t, Tail(cs), r.texts)

\* DOMElementNode.getAllTextTillNextClickableElement.
GetAllTextTillNextClickableElement(t, i) ==
    Trim(Join(Traverse(t, i, <<>>).texts, " "))

\* node.attributes[attr]: the value, or the empty string for undefined
\* (both are dropped by filter(Boolean)).
RECURSIVE AttributeValue(_, _)
AttributeValue(attrs, key) ==
    IF attrs = <<>> THEN <<>>
    ELSE IF Head(attrs)[1] = key THEN Head(attrs)[2]
    ELSE AttributeValue(Tail(attrs), key)

\* includeAttributes.map(attr => node.attributes[attr]).filter(Boolean).
RECURSIVE IncludedValues(_, _)
IncludedValues(attrs, include) ==
    IF include = <<>> THEN <<>>
    ELSE (IF AttributeValue(attrs, Head(include)) = <<>> THEN <<>>
          ELSE <<AttributeValue(attrs, Head(include))>>)
         \o IncludedValues(attrs, Tail(include))

\* One line of clickableElementsToString, lines 121-136.
ElementLine(t, i, include) ==
    LET attrs == Join(IncludedValues(t[i].attributes, include), " ")
    IN  <<ToString(t[i].highlightIndex), "[:]<", t[i].tagName, ">">>
        \o (IF include # <<>> /\ attrs # <<>> THEN attrs \o <<" ">> ELSE <<>>)
        \o GetAllTextTillNextClickableElement(t, i)
        \o <<"</", t[i].tagName, ">">>

RECURSIVE ToStringNode(_, _, _, _), ToStringNodes(_, _, _, _)
\* clickableElementsToString's traverse.  A DOMTextNode has no
\* highlightIndex property, so `node.highlightIndex !== null` is true for
\* it and the call of its missing getAllTextTillNextClickableElement
\* method (or, with attributes to include, the read of its missing
\* attributes) throws a TypeError.
ToStringNode(t, i, include, acc) ==
    IF acc.err # "none" THEN acc
    ELSE IF ~IsElement(t, i) THEN [err |-> "TypeError", lines |-> <<>>]
    ELSE ToStringNodes(t, Children(t, i), include,
            IF t[i].highlightIndex # NullIndex
            THEN [err |-> "none",
                  lines |-> Append(acc.lines, ElementLine(t, i, include))]
            ELSE acc)
ToStringNodes(t, cs, include, acc) ==
    IF cs = <<>> \/ acc.err # "none" THEN acc
    ELSE ToStringNodes(t, Tail(cs), include, ToStringNode(t, Head(cs), include, acc))

\* DOMElementNode.clickableElementsToString on the root: the error it
\* throws, or the lines it joins with newlines.
ClickableElementsToString(t, include) ==
    ToStringNode(t, 1, include, [err |-> "none", lines |-> <<>>])

\* The attribute lists the prompt is built with.
IncludeAttributes == { <<>>, << <<"a">> >> }

\* HistoryTreeProcessor._getParentBranchPath: the tag names from the
\* child of the root down to the element itself.
RECURSIVE GetParentBranchPath(_, _)
GetParentBranchPath(t, i) ==
    IF t[i].parent = 0 THEN <<>>
    ELSE Append(GetParentBranchPath(t, t[i].parent), t[i].tagName)

\* createHash('sha256').update(s).digest('hex'): equal digests for equal
\* strings, taken to differ for different strings.
Sha256(s) == [digestOf |-> s]

\* _parentBranchPathHash.
ParentBranchPathHash(path) ==
    Sha256(Join([j \in 1..Len(path) |-> <<path[j]>>], "/"))

\* Object.entries(attributes).map(([key, value]) => `${key}=${value}`).join('').
RECURSIVE AttributesString(_)
AttributesString(attrs) ==
    IF attrs = <<>> THEN <<>>
    ELSE Head(attrs)[1] \o <<"=">> \o Head(attrs)[2] \o AttributesString(Tail(attrs))

\* _attributesHash.
AttributesHash(attrs) == Sha256(AttributesString(attrs))

\* _hashDomElement.
HashDomElement(t, i) ==
    [branchPathHash |-> ParentBranchPathHash(GetParentBranchPath(t, i)),
     attributesHash |-> AttributesHash(t[i].attributes)]

\* _hashDomHistoryElement.
HashDomHistoryElement(h) ==
    [branchPathHash |-> ParentBranchPathHash(h.entireParentBranchPath),
     attributesHash |-> AttributesHash(h.attributes)]

\* convertDomElementToHistoryElement.
ConvertDomElementToHistoryElement(t, i) ==
    [tagName |-> t[i].tagName, highlightIndex |-> t[i].highlightIndex,
     entireParentBranchPath |-> GetParentBranchPath(t, i),
     attributes |-> t[i].attributes]

\* compareHistoryElementAndDomElement.
CompareHistoryElementAndDomElement(h, t, i) ==
    /\ HashDomHistoryElement(h).branchPathHash = HashDomElement(t, i).branchPathHash
    /\ HashDomHistoryElement(h).attributesHash = HashDomElement(t, i).attributesHash

RECURSIVE FindNode(_, _, _), FindNodes(_, _, _)
\* findHistoryElementInTree's processNode: the node found, or 0 for null.
FindNode(h, t, i) ==
    IF t[i].highlightIndex # NullIndex /\ HashDomElement(t, i) = HashDomHistoryElement(h)
    THEN i
    ELSE FindNodes(h, t, Children(t, i))
FindNodes(h, t, cs) ==
    IF cs = <<>> THEN 0
    ELSE IF IsElement(t, Head(cs)) /\ FindNode(h, t, Head(cs)) # 0
    THEN FindNode(h, t, Head(cs))
    ELSE FindNodes(h, t, Tail(cs))

\* A search that looks at the root only.
FindHistoryElementInTreeRootOnly(h, t) ==
    IF t[1].highlightIndex # NullIndex /\ HashDomElement(t, 1) = HashDomHistoryElement(h)
    THEN 1 ELSE 0

\* findHistoryElementInTree.
FindHistoryElementInTree(h, t) == FindNode(h, t, 1)

\* History elements kept from an earlier run.
StoredHistoryElements ==
    { [tagName |-> "button", highlightIndex |-> 0,
       entireParentBranchPath |-> p, attributes |-> a] :
        p \in { <<"button">>, <<"div", "button">> },
        a \in { NoAttributes, AttributesAB, AttributesA } }

\* The page is loaded; no DOM state has been built.
InitDom ==
    /\ \E raw \in RawTrees : dom = [NoDom EXCEPT !.pc = "page", !.raw = raw]
    /\ CtlParked
    /\ MMParked
    /\ AgentParked
    /\ BrowserParked
    /\ MsgParked
    /\ TelParked

DomOthers == <<ctlVars, mmVars, agentVars, browserVars, bg, telem>>

\* Elements of the DOM state carrying a highlight index.
Indexed(t) == { i \in 1..Len(t) : IsElement(t, i) /\ t[i].highlightIndex # NullIndex }

\* getClickableElements: parse the page script's result, build the map.
GetClickableElements ==
    /\ dom.pc = "page"
    /\ LET t == ParseNode(dom.raw) IN
       dom' = [dom EXCEPT !.pc = "state", !.tree = t,
                          !.selectorMap = CreateSelectorMap(t)]
    /\ UNCHANGED DomOthers

\* None of the calls below changes the DOM state, so each call, or pair
\* of a conversion and a search or comparison, is made on a fresh state.
\* elementTree.clickableElementsToString(includeAttributes).
ClickableElementsToStringCall ==
    /\ dom.pc = "state"
    /\ dom.last.op = "none"
    /\ \E include \in IncludeAttributes :
          LET r == ClickableElementsToString(dom.tree, include) IN
          dom' = [dom EXCEPT !.last =
                    [NoDomOp EXCEPT !.op = "toString",
                                    !.includeAttributes = include,
                                    !.err = r.err, !.lines = r.lines]]
    /\ UNCHANGED DomOthers

\* HistoryTreeProcessor.convertDomElementToHistoryElement(element).
ConvertCall ==
    /\ dom.pc = "state"
    /\ dom.last.op = "none"
    /\ \E i \in Indexed(dom.tree) :
          dom' = [dom EXCEPT !.last =
                    [NoDomOp EXCEPT !.op = "convert", !.source = i,
                       !.hist = ConvertDomElementToHistoryElement(dom.tree, i)]]
    /\ UNCHANGED DomOthers

\* A history element of an earlier run is taken up.
LoadHistoryElement ==
    /\ dom.pc = "state"
    /\ dom.last.op = "none"
    /\ \E h \in StoredHistoryElements :
          dom' = [dom EXCEPT !.last = [NoDomOp EXCEPT !.op = "load", !.hist = h]]
    /\ UNCHANGED DomOthers

\* HistoryTreeProcessor.findHistoryElementInTree(historyElement, root).
FindCall ==
    /\ dom.pc = "state"
    /\ dom.last.op \in {"convert", "load"}
    /\ dom' = [dom EXCEPT !.last.op = "find",
                          !.last.found = FindHistoryElementInTree(dom.last.hist, dom.tree)]
    /\ UNCHANGED DomOthers

\* HistoryTreeProcessor.compareHistoryElementAndDomElement(historyElement, element).
CompareCall ==
    /\ dom.pc = "state"
    /\ dom.last.op \in {"convert", "load"}
    /\ \E i \in { j \in 1..Len(dom.tree) : IsElement(dom.tree, j) } :
          dom' = [dom EXCEPT !.last.op = "compare", !.last.node = i,
                     !.last.equal =
                        CompareHistoryElementAndDomElement(dom.last.hist, dom.tree, i)]
    /\ UNCHANGED DomOthers

\* HistoryTreeProcessor._hashDomElement on two elements of the state.
HashCall ==
    /\ dom.pc = "state"
    /\ dom.last.op = "none"
    /\ \E i, j \in { k \in 1..Len(dom.tree) : IsElement(dom.tree, k) } :
          dom' = [dom EXCEPT !.last =
                    [NoDomOp EXCEPT !.op = "hash", !.node = i, !.other = j,
                       !.hashes = <<HashDomElement(dom.tree, i),
                                    HashDomElement(dom.tree, j)>>]]
    /\ UNCHANGED DomOthers

NextDom ==
    \/ GetClickableElements
    \/ ClickableElementsToStringCall
    \/ ConvertCall
    \/ LoadHistoryElement
    \/ FindCall
    \/ CompareCall
    \/ HashCall

SpecDom == InitDom /\ [][NextDom]_vars

(***************************************************************************)
(* Claims about the DOM state (checked under SpecDom)                      *)
(***************************************************************************)
\* C23: in every DOM state a snapshot produced, the keys of the index map
\* are exactly the non-null highlight indices of the elements of the tree,
\* and every key maps to an element carrying that index.
C23_IndexMapMatchesTree ==
    dom.pc = "state" =>
       /\ DOMAIN dom.selectorMap =
             { dom.tree[i].highlightIndex : i \in Indexed(dom.tree) }
       /\ \A k \in DOMAIN dom.selectorMap :
             /\ dom.selectorMap[k] \in Indexed(dom.tree)
             /\ dom.tree[dom.selectorMap[k]].highlightIndex = k

\* C23 witness: a snapshot whose root has no index, with two differently
\* indexed elements below it, one of them nested in the other.
C23_Witness ==
    /\ dom.pc = "state"
    /\ dom.tree[1].highlightIndex = NullIndex
    /\ Cardinality(DOMAIN dom.selectorMap) = 2
    /\ \E i \in Indexed(dom.tree) : dom.tree[i].parent \in Indexed(dom.tree)

\* The elements and texts below node i.
Descendants(t, i) ==
    LET RECURSIVE Under(_)
        Under(j) == IF j = 0 THEN FALSE
                    ELSE IF t[j].parent = i THEN TRUE ELSE Under(t[j].parent)
    IN  { j \in 1..Len(t) : Under(j) }

\* The text contents below node i, in document order, glued together.
DescendantText(t, i) ==
    LET RECURSIVE Texts(_)
        Texts(j) == IF j > Len(t) THEN <<>>
                    ELSE (IF j \in Descendants(t, i) /\ ~IsElement(t, j)
                          THEN <<t[j].text>> ELSE <<>>) \o Texts(j + 1)
    IN  Texts(1)

C24_ExpectedLine(t, i) ==
    <<ToString(t[i].highlightIndex), "[:]<", t[i].tagName, ">">>
    \o DescendantText(t, i) \o <<"</", t[i].tagName, ">">>

\* C24: serializing without attributes, every indexed element with no
\* indexed element nested in it comes out as `i[:]<tag>`, the
\* concatenation of the text below it, `</tag>`; a root button holding
\* the text Go comes out as 0[:]<button>Go</button>.
C24_SerializedWithText ==
    (dom.last.op = "toString" /\ dom.last.includeAttributes = <<>>) =>
       \A i \in Indexed(dom.tree) :
          Descendants(dom.tree, i) \cap Indexed(dom.tree) = {} =>
             /\ dom.last.err = "none"
             /\ \E j \in 1..Len(dom.last.lines) :
                   dom.last.lines[j] = C24_ExpectedLine(dom.tree, i)

\* C25: the hashes of two elements are equal exactly when the elements
\* have the same tag sequence up the tree and the same attribute map
\* (keys and values, in insertion order).
C25_HashEqualIffSame ==
    dom.last.op = "hash" =>
       ( dom.last.hashes[1] = dom.last.hashes[2]
         <=> /\ GetParentBranchPath(dom.tree, dom.last.node)
                   = GetParentBranchPath(dom.tree, dom.last.other)
             /\ dom.tree[dom.last.node].attributes
                   = dom.tree[dom.last.other].attributes )

\* C26: a history element converted from an indexed element of the tree
\* matches that element; searching the tree for it finds an element that
\* matches; and a search ends with not-found only when no indexed element
\* of the tree matches.
C26_RoundTrip ==
    /\ (dom.last.op = "compare" /\ dom.last.source # 0
                                /\ dom.last.node = dom.last.source)
          => dom.last.equal
    /\ (dom.last.op = "find" /\ dom.last.source # 0) =>
          /\ dom.last.found \in Indexed(dom.tree)
          /\ CompareHistoryElementAndDomElement(dom.last.hist, dom.tree,
                                                dom.last.found)
    /\ (dom.last.op = "find" /\ dom.last.found = 0) =>
          \A i \in Indexed(dom.tree) :
             ~CompareHistoryElementAndDomElement(dom.last.hist, dom.tree, i)

\* C26 witness: the search for the history element of an element below
\* the root finds another element, earlier in the tree, that matches too.
C26_Witness ==
    /\ dom.last.op = "find"
    /\ dom.last.source > 1
    /\ dom.last.found # 0
    /\ dom.last.found # dom.last.source

(***************************************************************************)
(* BackgroundMessageHandler (controller/messages.js)                       *)
(***************************************************************************)
MaxBgMessages == 2

MessageTypes == {"ACTION", "CDP_COMMAND"}
MessageParams == {IntV(1), StrV("k")}

\* The error an implementation registered by the embedding program
\* throws; the default implementations catch their own failures in
\* _executeWithResult and return them as results.
ImplThrownError == [wrapped |-> TRUE, text |-> "boom"]

NoResult == [error |-> Undefined, extractedContent |-> Undefined,
             includeInMemory |-> FALSE, isDone |-> FALSE]

\* How `await this.controller.act({[action]: params}, sender.tab)` settles.
Rejected(err)   == [threw |-> TRUE, error |-> err, result |-> NoResult]
Resolved(result) == [threw |-> FALSE, error |-> NoError, result |-> result]

\* Controller.act -> Registry.executeAction: the check before the
\* implementation, then the implementation's result; what a registered
\* named function throws is rethrown by executeAction's catch block.
ActOutcomes(reg, name, raw, hasBrowser) ==
    IF ExecuteActionCheck(reg, name, raw, hasBrowser) # NoError
    THEN { Rejected(ExecuteActionCheck(reg, name, raw, hasBrowser)) }
    ELSE { Resolved(r) :
             r \in ImplOutcomes(reg[name].impl,
                                ConstructParams(reg[name].paramModel, raw)) }
         \cup (IF reg[name].fname # "" THEN {Rejected(ImplThrownError)} ELSE {})

\* The two shapes of a response.
ResultResponse(result) ==
    [type |-> "ACTION_RESULT", keys |-> {"type", "result"},
     result |-> result, error |-> NoError]
ErrorResponse(err) ==
    [type |-> "ACTION_RESULT", keys |-> {"type", "error"},
     result |-> NoResult, error |-> err]

\* A handler without its catch block: a rejected act leaves no value.
HandleActionMessageNoCatch(outcome) ==
    IF outcome.threw THEN <<>> ELSE <<ResultResponse(outcome.result)>>

\* handleActionMessage, once act has settled: the values the returned
\* promise resolves with, each handed to sendResponse by the listener.
HandleActionMessage(outcome) ==
    IF outcome.threw THEN <<ErrorResponse(outcome.error)>>
    ELSE <<ResultResponse(outcome.result)>>

\* State after `new BackgroundMessageHandler(controller)`.
InitMsg ==
    /\ bg = [NoHandler EXCEPT !.pc = "listening"]
    /\ registry \in {RegisterAll(EmptyRegistry, DefaultRegistrations \o c) :
                        c \in CustomRegistrations}
    /\ ctlPc = "none"
    /\ actions = <<>>
    /\ browser = FALSE
    /\ idx = 1
    /\ results = <<>>
    /\ inflight = {}
    /\ implStage = 0
    /\ events = <<>>
    /\ execLog = <<>>
    /\ thrown = NoError
    /\ MMParked
    /\ AgentParked
    /\ BrowserParked
    /\ DomParked
    /\ TelParked

MsgOthers == <<ctlVars, mmVars, agentVars, browserVars, dom, telem>>

\* The onMessage listener runs for a message: an ACTION message starts
\* handleActionMessage and the listener returns true; any other message
\* is left alone.
OnMessage ==
    /\ bg.pc = "listening"
    /\ Len(bg.msgs) < MaxBgMessages
    /\ \E type \in MessageTypes, name \in ActionNames,
          raw \in MessageParams, hasTab \in BOOLEAN :
          bg' = [bg EXCEPT !.msgs = Append(@,
                    [type |-> type, action |-> name, params |-> raw,
                     hasTab |-> hasTab,
                     pc |-> IF type = "ACTION" THEN "pending" ELSE "ignored",
                     outcome |-> Resolved(NoResult), responses |-> <<>>])]
    /\ UNCHANGED MsgOthers

\* controller.act settles for a pending message; handleActionMessage
\* returns and `.then(sendResponse)` runs.
ActSettles ==
    /\ \E k \in 1..Len(bg.msgs) :
          /\ bg.msgs[k].pc = "pending"
          /\ \E o \in ActOutcomes(registry, bg.msgs[k].action,
                                  bg.msgs[k].params, bg.msgs[k].hasTab) :
                bg' = [bg EXCEPT !.msgs[k].pc = "answered",
                                 !.msgs[k].outcome = o,
                                 !.msgs[k].responses = @ \o HandleActionMessage(o)]
    /\ UNCHANGED MsgOthers

NextMsg == OnMessage \/ ActSettles

SpecMsg == InitMsg /\ [][NextMsg]_vars

\* The action of message m failed: act rejected, or the implementation
\* failed and reported it in its result.
ActionFailed(m) == m.outcome.threw \/ TruthyStr(m.outcome.result.error)

MaxTelemetryCalls == 3

\* An identifier absent from storage (identifiers are numbered from 1).
NoId == 0

\* State of the extension's storage before any telemetry code ran:
\* chrome.storage.sync holds telemetryEnabled (or not), neither store
\* holds an identifier.
InitTel ==
    /\ \E on \in BOOLEAN :
          telem = [NoTel EXCEPT !.pc = "ready", !.telemetryEnabled = on]
    /\ CtlParked
    /\ MMParked
    /\ AgentParked
    /\ BrowserParked
    /\ DomParked
    /\ MsgParked

TelOthers == <<ctlVars, mmVars, agentVars, browserVars, dom, bg>>

\* The locals of one telemetry call: which code runs, where it is, the
\* identifier it settled on and whether it found telemetry enabled.
TelCall(op, pc) == [op |-> op, pc |-> pc, userId |-> NoId, enabled |-> FALSE]

\* `new ProductTelemetry()` (the constructor calls initialize, which
\* suspends at its storage read) or a call of Agent._captureTelemetry
\* (which suspends at its storage read), while earlier calls may still be
\* pending.
TelemetryCall ==
    /\ telem.pc = "ready"
    /\ Len(telem.calls) < MaxTelemetryCalls
    /\ \E op \in {"initialize", "captureTelemetry"} :
          telem' = [telem EXCEPT !.calls = Append(@, TelCall(op, "read"))]
    /\ UNCHANGED TelOthers

\* ProductTelemetry.initialize resumes with the stored configuration:
\* lines 29-35 up to the storage write.
InitializeRead ==
    /\ \E k \in 1..Len(telem.calls) :
          /\ telem.calls[k].op = "initialize"
          /\ telem.calls[k].pc = "read"
          /\ LET found == telem.telemetryUserId # NoId IN
             telem' = [telem EXCEPT
                !.calls[k].enabled = telem.telemetryEnabled,
                !.calls[k].userId = IF found THEN telem.telemetryUserId
                                    ELSE telem.nextId,
                !.calls[k].pc = IF found THEN "initialized" ELSE "write",
                !.nextId = IF found THEN @ ELSE @ + 1]
    /\ UNCHANGED TelOthers

\* chrome.storage.sync.set({telemetryUserId: this.userId}) takes effect.
InitializeWrite ==
    /\ \E k \in 1..Len(telem.calls) :
          /\ telem.calls[k].op = "initialize"
          /\ telem.calls[k].pc = "write"
          /\ telem' = [telem EXCEPT
                !.telemetryUserId = telem.calls[k].userId,
                !.writes = Append(@, [key |-> "telemetryUserId",
                                      id |-> telem.calls[k].userId]),
                !.calls[k].pc = "initialized"]
    /\ UNCHANGED TelOthers

\* ProductTelemetry.capture on an initialized instance: nothing when
\* telemetry is disabled, else an event carrying this.userId.
Capture ==
    /\ \E k \in 1..Len(telem.calls) :
          /\ telem.calls[k].op = "initialize"
          /\ telem.calls[k].pc = "initialized"
          /\ telem' = [telem EXCEPT
                !.events = IF telem.calls[k].enabled
                           THEN Append(@, [key |-> "telemetryUserId",
                                           userId |-> telem.calls[k].userId])
                           ELSE @,
                !.calls[k].pc = "done"]
    /\ UNCHANGED TelOthers

\* Agent._captureTelemetry resumes with the stored anonymousId: lines
\* 933-937 up to the storage write.
CaptureTelemetryRead ==
    /\ \E k \in 1..Len(telem.calls) :
          /\ telem.calls[k].op = "captureTelemetry"
          /\ telem.calls[k].pc = "read"
          /\ LET found == telem.anonymousId # NoId IN
             telem' = [telem EXCEPT
                !.calls[k].userId = IF found THEN telem.anonymousId
                                    ELSE telem.nextId,
                !.calls[k].pc = IF found THEN "send" ELSE "write",
                !.nextId = IF found THEN @ ELSE @ + 1]
    /\ UNCHANGED TelOthers

\* chrome.storage.local.set({anonymousId: userId}) takes effect.
CaptureTelemetryWrite ==
    /\ \E k \in 1..Len(telem.calls) :
          /\ telem.calls[k].op = "captureTelemetry"
          /\ telem.calls[k].pc = "write"
          /\ telem' = [telem EXCEPT
                !.anonymousId = telem.calls[k].userId,
                !.writes = Append(@, [key |-> "anonymousId",
                                      id |-> telem.calls[k].userId]),
                !.calls[k].pc = "send"]
    /\ UNCHANGED TelOthers

\* Agent._captureTelemetry sends its event (lines 939-957).
CaptureTelemetrySend ==
    /\ \E k \in 1..Len(telem.calls) :
          /\ telem.calls[k].op = "captureTelemetry"
          /\ telem.calls[k].pc = "send"
          /\ telem' = [telem EXCEPT
                !.events = Append(@, [key |-> "anonymousId",
                                      userId |-> telem.calls[k].userId]),
                !.calls[k].pc = "done"]
    /\ UNCHANGED TelOthers

NextTel ==
    \/ TelemetryCall
    \/ InitializeRead
    \/ InitializeWrite
    \/ Capture
    \/ CaptureTelemetryRead
    \/ CaptureTelemetryWrite
    \/ CaptureTelemetrySend

SpecTel == InitTel /\ [][NextTel]_vars

\* C28: the identifier is persisted once and reused: all writes of an
\* identifier under a storage key write the same identifier, whether or
\* not the calls overlapped, and every event emitted carries the
\* identifier persisted under the key it was taken from.
C28_IdentifierPersistedOnce ==
    /\ \A i, j \in 1..Len(telem.writes) :
          telem.writes[i].key = telem.writes[j].key
             => telem.writes[i].id = telem.writes[j].id
    /\ \A e \in 1..Len(telem.events) :
          telem.events[e].userId =
             IF telem.events[e].key = "anonymousId"
             THEN telem.anonymousId ELSE telem.telemetryUserId

(***************************************************************************)
(* Claims about the result folding of addStateMessage (checked under       *)
(* SpecMM)                                                                 *)
(***************************************************************************)
\* C29: after addStateMessage, for every result handed to it that carries
\* an error, one of the messages the call added (a message of its own or
\* the state message) holds that error text, cut to the maximum error
\* length, whatever results precede it in the list.
C29_ErrorsFolded ==
    mmLast.op = "addStateMessage" =>
       \A j \in 1..Len(mmLast.result) :
          TruthyStr(mmLast.result[j].error) =>
             \E k \in (mmLast.lenBefore + 1)..Len(history.messages) :
                \E e \in 1..Len(history.messages[k].message.errors) :
                   history.messages[k].message.errors[e]
                      = SlicedError(mmLast.result[j].error)

(***************************************************************************)
(* Claims about overflow handling (checked under SpecAgent)                *)
(***************************************************************************)
\* C30: when a step failed because trimming raised the overflow error,
\* the error handling has left the MessageManager's budget strictly below
\* its value before the failure and has run the trimming again.
C30_OverflowLowersBudget ==
    (stepLog.failed /\ stepLog.errText = "Max token limit reached") =>
       /\ maxInputTokens < stepLog.budgetBefore
       /\ stepLog.retrimmed


\* C31: after a step fails with a rate-limit error, the next step does not
\* begin until the retry delay has elapsed: step() is not entered while a
\* timer armed by the rate-limit branch is still pending.
C31_RetryDelayObserved == [][StepCall => retryTimers = 0]_vars

(***************************************************************************)
(* Further claims about the context window manager (checked under SpecMM)  *)
(***************************************************************************)
\* C32: trimming touches only the newest message: across every getMessages
\* call, returning or throwing, the number of records is unchanged and
\* every record but the last keeps its message, token count and position.
C32_TrimTouchesOnlyNewest ==
    [][MMGetMessages =>
          /\ Len(history'.messages) = Len(history.messages)
          /\ \A j \in 1..(Len(history.messages) - 1) :
                history'.messages[j] = history.messages[j]]_vars

\* C32 witness: getMessages ran over budget on a history with records
\* after the initial two and changed the newest one.
C32_Witness ==
    /\ mmLast.op = "getMessages"
    /\ mmLast.over
    /\ mmLast.lastImages > 0
    /\ mmLast.lenBefore >= 4
    /\ history.messages[Len(history.messages)].inputTokens < mmLast.lastTokens

\* C33: over budget with an image in the newest message, getMessages drops
\* the image and takes IMG_TOKENS for it off both the record's count and
\* the running total; when that alone brings the total within the budget
\* the text keeps its full length and the call returns normally.
C33_ImageDroppedFirst ==
    [][MMGetMessages =>
          LET n    == Len(history.messages)
              last == history.messages[n]
              cost == last.message.images * IMG_TOKENS
          IN  (history.totalTokens > maxInputTokens /\ last.message.images > 0) =>
                 /\ history'.messages[n].message.images = 0
                 /\ history'.messages[n].inputTokens <= last.inputTokens - cost
                 /\ history'.totalTokens <= history.totalTokens - cost
                 /\ history.totalTokens - cost <= maxInputTokens =>
                       /\ mmLast'.err = "none"
                       /\ history'.messages[n].message.len = last.message.len
                       /\ history'.messages[n].inputTokens = last.inputTokens - cost
                       /\ history'.totalTokens = history.totalTokens - cost]_vars

\* C33 witness: getMessages found the history over budget by no more than
\* the image's cost, the newest message holding an image, and returned.
C33_Witness ==
    /\ mmLast.op = "getMessages"
    /\ mmLast.over
    /\ mmLast.lastImages > 0
    /\ mmLast.diff <= mmLast.lastImages * IMG_TOKENS
    /\ mmLast.err = "none"
    /\ history.messages[Len(history.messages)].message.len >= 3000

\* C34: _removeLastStateMessage, called on a history of more than two
\* records whose newest is a user message, removes exactly that record and
\* lowers totalTokens by its count, the other records unchanged; in every
\* other case it changes nothing.
C34_DropsNewestStateMessage ==
    [][MMRemoveLastStateMessage =>
          LET n    == Len(history.messages)
              last == history.messages[n]
          IN  IF n > 2 /\ last.message.role = "user"
              THEN /\ mmLast'.err = "none"
                   /\ history'.messages = SubSeq(history.messages, 1, n - 1)
                   /\ history'.totalTokens = history.totalTokens - last.inputTokens
              ELSE history' = history]_vars

C36_IdlePathWaitsForRequests ==
    /\ []((net.pc = "resolved" /\ net.via = "idle") =>
             /\ net.pendingRequests = {}
             /\ net.sinceStart >= 0 => net.sinceStart >= IdleWindow)
    /\ [][RequestWillBeSent =>
             /\ net'.pendingRequests # {}
             /\ net.pendingRequests \subseteq net'.pendingRequests
             /\ net'.timeoutId = IdleWindow]_vars

\* C36 witness: the wait resolved through the idle path after a request
\* observed during it had started and finished.
C36_Witness ==
    /\ net.pc = "resolved"
    /\ net.via = "idle"
    /\ net.sinceStart >= IdleWindow
    /\ net.elapsed < MaxWait

(***************************************************************************)
(* Further claims about the controller (checked under SpecCtl)             *)
(***************************************************************************)
\* C37: once the Controller has registered its default actions the catalog
\* holds every one of them under a name of its own: as many entries are
\* default registrations as there are default registrations.
C37_DefaultsAllRegistered ==
    Cardinality({n \in DOMAIN registry :
                    \E i \in 1..Len(DefaultRegistrations) :
                       registry[n] = DefaultRegistrations[i]})
       = Len(DefaultRegistrations)

\* The property a parameter model reads its first field from.
FirstProperty(model) ==
    IF model \in {"ClickElementAction", "InputTextAction"} THEN "index" ELSE "text"

\* C38: executeAction on a registered action, with the parameters given as
\* the planner writes them (an object such as {index: 3}) and satisfying
\* the action's schema, and with a session supplied when one is required,
\* passes validation and invokes the implementation.
C38_PlannerParamsAccepted ==
    \A j \in 1..Len(execLog) :
       LET e == execLog[j] IN
       (/\ e.name \in DOMAIN registry
        /\ e.params.kind = "obj"
        /\ ValidateParams(registry[e.name].paramModel,
              [a |-> PropertyOf(e.params,
                                FirstProperty(registry[e.name].paramModel)),
               b |-> UndefV])
        /\ registry[e.name].requiresBrowser => e.hasBrowser)
          => e.err = NoError

(***************************************************************************)
(* Further claims about the orchestrator (checked under SpecAgent)         *)
(***************************************************************************)
\* The elements the index map assigns to the actions' index parameters,
\* in action order.
RECURSIVE TouchedElements(_, _)
TouchedElements(as, selectorMap) ==
    IF as = <<>> THEN <<>>
    ELSE LET index == PropertyOf(Head(as).params, "index") IN
         (IF index.kind = "int" /\ index.num \in DOMAIN selectorMap
          THEN << selectorMap[index.num] >> ELSE <<>>)
         \o TouchedElements(Tail(as), selectorMap)

\* C39: the history item of a step that had a model output lists, in
\* action order, the element the step's index map assigns to every action
\* whose index parameter is a key of that map, index 0 included.
C39_TouchedElementsRecorded ==
    (/\ StepEnded
     /\ stModelOutput.present
     /\ Len(runHistory) = stepLog.histBefore + 1) =>
       runHistory[Len(runHistory)].state.interactedElements
          = TouchedElements(stModelOutput.actions, stState.selectorMap)

(***************************************************************************)
(* Further claims about the browser session (checked under SpecSession)    *)
(***************************************************************************)
\* C40: whenever an initialize, switchToTab, createNewTab or close call has
\* finished, resolved or rejected, the tab the session records as current
\* is the tab the transport records as attached (or both are absent), and
\* the transport records an attachment only for a tab that is attached.
C40_CurrentTabIsAttachedTab ==
    \A s \in DOMAIN sessCalls :
       (/\ sessCalls[s].pc = "idle"
        /\ sessCalls[s].op \in {"initialize", "switchToTab", "createNewTab",
                                "close"}) =>
          /\ sess.currentTabId = sess.cdp.tabId
          /\ sess.cdp.debuggee # NullTab => sess.cdp.debuggee \in chrome.attached

====
